---- MODULE Spec2Model ----
(***************************************************************************)
(* Validator node of the WAVES <-> Unit0 bridge: the coordinator           *)
(* (ValidatorNode), its LevelDB store (Database), the relayer (Relayer),   *)
(* the signature engine (SignatureEngine), the two chain watchers and the  *)
(* parts of the chain-B bridge contract the relayer talks to.              *)
(*                                                                         *)
(* Asynchronous handlers are modelled as processes that advance from one   *)
(* await to the next; the handlers of one node interleave at those points. *)
(***************************************************************************)
EXTENDS Integers, Sequences, FiniteSets, TLC

(***************************************************************************)
(* Bounds of the model.                                                    *)
(***************************************************************************)
\* how often one lock event reaches handleNewTransfer (watcher + gossip)
MaxDeliver == 2
\* how many sweeps (processPendingTransfers timer ticks) start
MaxSweeps == 2
\* how often the process is restarted
MaxRestarts == 1
\* largest validatorThreshold the bridge is configured with
MaxThreshold == 2
\* chain height the watcher model runs to
MaxHeight == 2
\* configured finality depth (config.wavesConfirmations, unit0Confirmations)
Confirmations == 1
\* the block of its source chain that holds a lock event
LockBlock == 1
\* how many coordinator calls with Database operations overlap
MaxCalls == 3

(***************************************************************************)
(* Inputs: transfers, addresses, token references.                         *)
(***************************************************************************)
\* t1 is locked on WAVES (released on Unit0), t2 is locked on Unit0; t3 is
\* an event that names WAVES as its source and as its destination.
Tids == {"t1", "t2", "t3"}

destinationChain(t) == IF t = "t1" THEN "UNIT0" ELSE "WAVES"

sourceChain(t) == IF t = "t2" THEN "UNIT0" ELSE "WAVES"

\* 20-byte addresses as numbers; the node's own wallet, and a peer validator.
OwnAddress == 2

Peers == {1}

\* addresses the owner of the chain-B bridge can add as validators
Addresses == {1, 2, 3}

\* keys a gossip message can be signed with: the peer's and an outsider's
Keys == {1, 3}

ZeroAddress == 0

\* destination references a digest can name (1: the registered one)
TokenRefs == {1, 2}

Statuses == {"pending", "attesting", "relaying", "completed", "failed"}

NoRecord == [status |-> "absent", attestations |-> <<>>, relayTxHash |-> FALSE]

VARIABLES
    transfers,            \* store: transfer:<id> -> TransferRecord
    attRows,              \* store: keys attestation:<id>:<validator>
    blockLast,            \* store: block:waves:last / block:unit0:last
    dbOpen,               \* Database.isOpen
    pendingTransactions,  \* Relayer.pendingTransactions (memory)
    completedTransfers,   \* Relayer.completedTransfers (memory)
    wavesSeed,            \* config.wavesSeed is set
    processedTransfers,   \* chain B: processedTransfers[keccak(id)]
    processedWaves,       \* chain A: transfer released by the dApp
    wavesToUnit0Token,    \* chain B: wavesToUnit0Token[asset of t1]
    tokenMap,             \* chain A: token_map_<asset> row for the token of t2
    validatorThreshold,   \* chain B: validatorThreshold
    live,                 \* lock events that exist on their source chain
    handlers,             \* handleNewTransfer invocations in flight, by await
    sweeps,               \* processPendingTransfers invocations in flight
    txs,                  \* history: release transactions submitted
    delivered,            \* history: deliveries of each lock event
    nSweeps,              \* history: sweeps started
    restarts,             \* history: process restarts
    height,               \* chain height of each source chain
    lastProcessed,        \* watcher.lastProcessedHeight / lastProcessedBlock
    watcherRunning,       \* watcher.isRunning
    nodePhase,            \* the process: "down" or "running"
    calls,                \* Database calls in flight, each with the record it read
    wavesTx,              \* the chain-A transaction the watcher is looking at
    emitted,              \* history: events the watchers emitted
    pollHead,             \* the chain height the poll in flight read, per watcher
    startBlock,           \* process.env.WAVES_START_BLOCK / UNIT0_START_BLOCK
    unit0ChainId,         \* config.unit0ChainId
    clock,                \* Date.now()
    signedLog,            \* history: calls of the signature engine
    validators,           \* chain B: validators[a].isActive
    validatorList,        \* chain B: validatorList
    activeValidatorCount, \* chain B: activeValidatorCount
    bridgeFeePercent,     \* chain B: bridgeFeePercent (basis points)
    validatorFeePercent,  \* chain B: validatorFeePercent (basis points)
    pendingLocks,         \* chain B: pendingLocks with the TokensLocked events
    tokensReleased,       \* chain B: the TokensReleased events
    callResult,           \* chain B: what the last call returned
    factoryBridge,        \* factory: bridge
    factoryOwner,         \* factory: owner()
    wavesAssetToWrapped,  \* factory: wavesAssetToWrapped[asset]
    wrappedToken          \* the clones: _initialized, _bridge, _wavesAssetId

storeVars == <<transfers, attRows, blockLast, dbOpen>>

relayerVars == <<pendingTransactions, completedTransfers>>

chainVars == <<processedTransfers, processedWaves, wavesToUnit0Token, tokenMap,
               validatorThreshold>>

watcherVars == <<height, lastProcessed, watcherRunning, nodePhase>>

histVars == <<txs, delivered, nSweeps, restarts>>

contractVars == <<validators, validatorList, activeValidatorCount, bridgeFeePercent,
                  validatorFeePercent, pendingLocks, tokensReleased, callResult,
                  factoryBridge, factoryOwner, wavesAssetToWrapped, wrappedToken>>

factoryVars == <<factoryBridge, factoryOwner, wavesAssetToWrapped, wrappedToken>>

envVars == <<pollHead, startBlock, unit0ChainId, clock, signedLog, contractVars>>

ioVars == <<calls, wavesTx, emitted, envVars>>

vars == <<transfers, attRows, blockLast, dbOpen, pendingTransactions,
          completedTransfers, wavesSeed, processedTransfers, processedWaves,
          wavesToUnit0Token, tokenMap, validatorThreshold, live, handlers, sweeps,
          txs, delivered, nSweeps, restarts, height, lastProcessed,
          watcherRunning, nodePhase, calls, wavesTx, emitted, pollHead,
          startBlock, unit0ChainId, clock, signedLog, validators, validatorList,
          activeValidatorCount, bridgeFeePercent, validatorFeePercent, pendingLocks,
          tokensReleased, callResult, factoryBridge, factoryOwner,
          wavesAssetToWrapped, wrappedToken>>

\* the validators that are active on the chain-B bridge
ActiveValidators == {a \in DOMAIN validators : validators[a]}


(***************************************************************************)
(* Database (LevelDB store).                                               *)
(***************************************************************************)
\* Database.saveTransfer: insert a pending record unless one exists.
saveTransfer(db, t) ==
    IF db[t].status # "absent"
    THEN db
    ELSE [db EXCEPT ![t] = [status |-> "pending", attestations |-> <<>>,
                            relayTxHash |-> FALSE]]

\* Database.updateTransferStatus on a record that exists (it throws otherwise).
updateTransferStatus(db, t, status, hasTxHash) ==
    [db EXCEPT ![t] = [status |-> status,
                       attestations |-> @.attestations,
                       relayTxHash |-> IF hasTxHash THEN TRUE ELSE @.relayTxHash]]

\* record.attestations.findIndex(a => a.validatorAddress === v); 0: not found
findIndex(atts, v) ==
    IF \E i \in 1..Len(atts) : atts[i].validatorAddress = v
    THEN CHOOSE i \in 1..Len(atts) :
            /\ atts[i].validatorAddress = v
            /\ \A j \in 1..(i - 1) : atts[j].validatorAddress # v
    ELSE 0

\* Database.saveAttestation, the transfer record: replace the validator's
\* entry or push; nothing when the record does not exist.
saveAttestation(db, a) ==
    LET rec == db[a.transferId]
        i == findIndex(rec.attestations, a.validatorAddress)
    IN  IF rec.status = "absent"
        THEN db
        ELSE [db EXCEPT ![a.transferId].attestations =
                IF i > 0 THEN [@ EXCEPT ![i] = a] ELSE Append(@, a)]

\* Database.saveAttestation, the attestation:<id>:<validator> row.
saveAttestationRow(rows, a) == rows \cup {<<a.transferId, a.validatorAddress>>}

\* Database.hasAttestation
hasAttestation(rows, t, v) == <<t, v>> \in rows

\* The status filter of Database.getPendingTransfers.
isPendingStatus(status) == status = "pending" \/ status = "attesting"

\* Database.getPendingTransfers: the open records, in key order.
getPendingTransfers(db) ==
    LET keys == SelectSeq(<<"t1", "t2", "t3">>, LAMBDA t : isPendingStatus(db[t].status))
    IN  [i \in 1..Len(keys) |->
            [transferId |-> keys[i], attestations |-> db[keys[i]].attestations]]

(***************************************************************************)
(* SignatureEngine.                                                        *)
(***************************************************************************)
\* ethers.keccak256(ethers.toUtf8Bytes(transferId)): engine and relayer alike
transferIdToBytes32(t) == <<"keccak256", t>>

\* SignatureEngine.createUnit0MessageHash: the packed fields that vary here
\* (amount, recipient, token kind, token id and chain id are those of the event)
createUnit0MessageHash(t, tokenAddress) == <<transferIdToBytes32(t), tokenAddress>>

\* the chain id signTransferForWaves appends to the message it signs
UNIT0_CHAIN_ID == 88811

\* sha256 of transferId + recipient + assetId + amount + chain id
createWavesMessageHash(t, wavesAssetId) == <<"sha256", t, wavesAssetId>>

\* SignatureEngine.signTransferForUnit0
signTransferForUnit0(t, tokenAddress) ==
    [transferId |-> t,
     validatorAddress |-> OwnAddress,
     publicKey |-> FALSE,
     messageHash |-> createUnit0MessageHash(t, tokenAddress),
     signature |-> [scheme |-> "secp256k1", signer |-> OwnAddress,
                    digest |-> createUnit0MessageHash(t, tokenAddress)]]

\* SignatureEngine.signTransferForWaves (the seed is configured)
signTransferForWaves(t, wavesAssetId) ==
    [transferId |-> t,
     validatorAddress |-> OwnAddress,
     publicKey |-> TRUE,
     messageHash |-> createWavesMessageHash(t, wavesAssetId),
     signature |-> [scheme |-> "ed25519", signer |-> OwnAddress,
                    digest |-> createWavesMessageHash(t, wavesAssetId)]]

\* An address no validator owns: what ecrecover yields for a signature made
\* over another digest.
GarbageAddress(sig) == 4 + sig.signer

\* variant: a recovery that yields the signer whatever digest was signed
recoverAnyDigest(hash, sig) == sig.signer

\* ECDSA recovery of a 65-byte signature over the EIP-191 hash of `hash`.
recover(hash, sig) == IF sig.digest = hash THEN sig.signer ELSE GarbageAddress(sig)

\* String.toLowerCase on an address: a positive number is the checksum
\* spelling of an address (wallet.address, ethers.verifyMessage), its negative
\* the all-lowercase spelling of the same address.
toLowerCase(addr) == IF addr > 0 THEN 0 - addr ELSE addr

\* SignatureEngine.verifySignature: ethers.verifyMessage throws on a
\* signature that is not a 65-byte secp256k1 one, and the catch returns false.
verifySignature(a, expectedValidator) ==
    /\ a.signature.scheme = "secp256k1"
    /\ toLowerCase(recover(a.messageHash, a.signature)) = toLowerCase(expectedValidator)

(***************************************************************************)
(* Chain-B bridge contract (WavesUnit0Bridge).                             *)
(***************************************************************************)
RECURSIVE verifyLoopUnordered(_, _, _)
\* variant: the loop without require(signer > lastSigner)
verifyLoopUnordered(hash, signatures, lastSigner) ==
    IF signatures = <<>>
    THEN TRUE
    ELSE LET signer == recover(hash, Head(signatures))
         IN  /\ signer \in ActiveValidators
             /\ verifyLoopUnordered(hash, Tail(signatures), signer)

RECURSIVE verifyLoopAnySigner(_, _, _)
\* variant: the loop without require(validators[signer].isActive)
verifyLoopAnySigner(hash, signatures, lastSigner) ==
    IF signatures = <<>>
    THEN TRUE
    ELSE LET signer == recover(hash, Head(signatures))
         IN  /\ signer > lastSigner
             /\ verifyLoopAnySigner(hash, Tail(signatures), signer)

RECURSIVE verifyLoop(_, _, _)
\* the loop of _verifySignatures: TRUE iff no require fails
verifyLoop(hash, signatures, lastSigner) ==
    IF signatures = <<>>
    THEN TRUE
    ELSE LET signer == recover(hash, Head(signatures))
         IN  /\ signer > lastSigner
             /\ signer \in ActiveValidators
             /\ verifyLoop(hash, Tail(signatures), signer)

\* WavesUnit0Bridge._verifySignatures
_verifySignatures(hash, signatures, threshold) ==
    /\ verifyLoop(hash, signatures, ZeroAddress)
    /\ Len(signatures) >= threshold

\* variant: releaseTokens without require(!processedTransfers[wavesTransferId])
releaseTokensReplay(isProcessed, threshold, id32, token, signatures) ==
    /\ Len(signatures) >= threshold
    /\ _verifySignatures(<<id32, token>>, signatures, threshold)

\* WavesUnit0Bridge.releaseTokens does not revert
releaseTokens(isProcessed, threshold, id32, token, signatures) ==
    /\ ~isProcessed
    /\ Len(signatures) >= threshold
    /\ _verifySignatures(<<id32, token>>, signatures, threshold)

(***************************************************************************)
(* Relayer lookups.                                                        *)
(***************************************************************************)
Chains == {"WAVES", "UNIT0"}

\* Relayer.getUnit0TokenAddress: the contract's wavesToUnit0Token mapping
getUnit0TokenAddress(mapping) == mapping

\* Relayer.getWavesAssetId: the token_map row, or null (0) when the HTTP
\* request fails or no row matches
getWavesAssetId(row, httpOk) == IF httpOk THEN row ELSE 0

(***************************************************************************)
(* Initial state: an empty store, a node that is up, one lock event.       *)
(***************************************************************************)
IdleHandler == [tid |-> "t1", pc |-> "idle"]

IdleSweep == [stage |-> "idle", threshold |-> 0, queue |-> <<>>,
              signatures |-> <<>>, publicKeys |-> <<>>]

InitStore ==
    /\ transfers = [t \in Tids |-> NoRecord]
    /\ attRows = {}
    /\ blockLast = [c \in Chains |-> <<>>]
    /\ dbOpen = TRUE

InitRelayer ==
    /\ pendingTransactions = {}
    /\ completedTransfers = {}

\* a lock on chain A, to be released on chain B: the asset may or may not be
\* registered on the chain-B bridge yet
InitToUnit0 ==
    /\ live = {"t1"}
    /\ wavesToUnit0Token \in {ZeroAddress, 1}
    /\ tokenMap = 1
    /\ wavesSeed = TRUE

\* a lock on chain B, to be released on chain A: the token may or may not have
\* a token_map row, and the node may run without a chain-A seed
InitToWaves ==
    /\ live = {"t2"}
    /\ wavesToUnit0Token = 1
    /\ tokenMap \in {0, 1}
    /\ wavesSeed \in BOOLEAN

InitChains ==
    /\ processedTransfers = {}
    /\ processedWaves = {}
    /\ validatorThreshold \in 1..MaxThreshold
    /\ validatorThreshold <= Cardinality(ActiveValidators)
    /\ InitToUnit0 \/ InitToWaves

InitHistory ==
    /\ txs = <<>>
    /\ delivered = [t \in Tids |-> 0]
    /\ nSweeps = 0
    /\ restarts = 0

\* no Database call in flight
NoAttestation ==
    [transferId |-> "t1", validatorAddress |-> 0, publicKey |-> FALSE,
     messageHash |-> <<>>,
     signature |-> [scheme |-> "none", signer |-> 0, digest |-> <<>>]]

IdleCall == [kind |-> "idle", pc |-> "idle", tid |-> "t1", a |-> NoAttestation,
             rec |-> NoRecord]

\* no chain-A transaction under inspection
NoTx == [type |-> 0, dApp |-> "none", stateChanges |-> FALSE, call |-> "none",
         payment |-> FALSE, toUnit0 |-> FALSE, inspected |-> FALSE]

\* no poll in flight
NoPoll == [c \in Chains |-> <<>>]

\* no call has returned anything yet
NoCall == [call |-> "none", reverted |-> FALSE, value |-> <<>>]

\* WAVES asset ids a wrapped token is created for
Assets == {"a1", "a2"}

\* a clone before initialize
NoToken == [initialized |-> FALSE, bridge |-> "none", wavesAssetId |-> ""]

\* the chain-B bridge after its constructor and addValidator for the peer and
\* for the node; no lock, no release, no wrapped token
InitContract ==
    /\ validators = [a \in Addresses |-> a \in {1, 2}]
    /\ validatorList = <<1, 2>>
    /\ activeValidatorCount = 2
    /\ bridgeFeePercent = 10
    /\ validatorFeePercent = 5
    /\ pendingLocks = <<>>
    /\ tokensReleased = <<>>
    /\ callResult = NoCall
    /\ factoryBridge = "none"
    /\ factoryOwner = "owner"
    /\ wavesAssetToWrapped = [a \in Assets |-> ZeroAddress]
    /\ wrappedToken = [a \in Assets |-> NoToken]

\* the start-block overrides are not set; chain id 88811; the clock at 0
InitEnv ==
    /\ InitContract
    /\ pollHead = NoPoll
    /\ startBlock = [c \in Chains |-> ""]
    /\ unit0ChainId = UNIT0_CHAIN_ID
    /\ clock = 0
    /\ signedLog = <<>>

InitIo ==
    /\ calls = [k \in 1..MaxCalls |-> IdleCall]
    /\ wavesTx = NoTx
    /\ emitted = {}
    /\ InitEnv

Init ==
    /\ InitStore
    /\ InitRelayer
    /\ InitIo
    /\ InitChains
    /\ InitHistory
    /\ handlers = [i \in 1..MaxDeliver |-> IdleHandler]
    /\ sweeps = [i \in 1..MaxSweeps |-> IdleSweep]
    /\ height = [c \in Chains |-> 0]
    /\ lastProcessed = [c \in Chains |-> 0]
    /\ watcherRunning = [c \in Chains |-> TRUE]
    /\ nodePhase = "running"

(***************************************************************************)
(* ValidatorNode.handleNewTransfer, one step per await.                    *)
(***************************************************************************)
nDelivered == delivered["t1"] + delivered["t2"] + delivered["t3"]

\* 'transfer' from a watcher or from the gossip network: the handler is
\* started and runs up to the first await (the read inside saveTransfer).
Deliver(t) ==
    /\ nodePhase = "running"
    /\ t \in live
    /\ nDelivered < MaxDeliver
    /\ handlers' = [handlers EXCEPT ![nDelivered + 1] = [tid |-> t, pc |-> "save"]]
    /\ delivered' = [delivered EXCEPT ![t] = @ + 1]
    /\ UNCHANGED <<storeVars, relayerVars, wavesSeed, chainVars, live, sweeps, txs,
                   nSweeps, restarts, watcherVars, ioVars>>

\* await this.database.saveTransfer(transfer)
HSave(i) ==
    /\ handlers[i].pc = "save"
    /\ dbOpen
    /\ transfers' = saveTransfer(transfers, handlers[i].tid)
    /\ handlers' = [handlers EXCEPT ![i].pc = "resolve"]
    /\ UNCHANGED <<attRows, blockLast, dbOpen, relayerVars, wavesSeed, chainVars,
                   live, sweeps, histVars, watcherVars, ioVars>>

\* the attestation the node signs for transfer t once the reference is known
ownAttestation(t, ref) ==
    IF destinationChain(t) = "UNIT0"
    THEN signTransferForUnit0(t, ref)
    ELSE signTransferForWaves(t, ref)

\* resolve the destination reference; unresolved: status 'failed' and return;
\* else sign and saveAttestation.  rpcOk = FALSE: the lookup throws (chain B)
\* or returns null (chain A).
HSign(i, rpcOk) ==
    LET t == handlers[i].tid
        ref == IF destinationChain(t) = "UNIT0"
               THEN getUnit0TokenAddress(wavesToUnit0Token)
               ELSE getWavesAssetId(tokenMap, rpcOk)
        threw == \/ destinationChain(t) = "UNIT0" /\ ~rpcOk
                 \/ destinationChain(t) = "WAVES" /\ ref # 0 /\ ~wavesSeed
    IN  /\ handlers[i].pc = "resolve"
        /\ dbOpen
        /\ IF threw
           THEN /\ handlers' = [handlers EXCEPT ![i].pc = "caught"]
                /\ UNCHANGED <<transfers, attRows>>
           ELSE IF ref = ZeroAddress
           THEN /\ transfers' = updateTransferStatus(transfers, t, "failed", FALSE)
                /\ handlers' = [handlers EXCEPT ![i].pc = "done"]
                /\ UNCHANGED attRows
           ELSE /\ transfers' = saveAttestation(transfers, ownAttestation(t, ref))
                /\ attRows' = saveAttestationRow(attRows, ownAttestation(t, ref))
                /\ handlers' = [handlers EXCEPT ![i].pc = "publish"]
        /\ UNCHANGED <<blockLast, dbOpen, relayerVars, wavesSeed, chainVars, live,
                       sweeps, histVars, watcherVars, ioVars>>

\* broadcastAttestation, broadcastTransfer, then
\* updateTransferStatus(transferId, 'attesting'); a publish that throws ends
\* the handler in its catch.
HPublish(i, published) ==
    /\ handlers[i].pc = "publish"
    /\ dbOpen
    /\ handlers' = [handlers EXCEPT ![i].pc = "done"]
    /\ transfers' = IF published
                    THEN updateTransferStatus(transfers, handlers[i].tid,
                                              "attesting", FALSE)
                    ELSE transfers
    /\ UNCHANGED <<attRows, blockLast, dbOpen, relayerVars, wavesSeed, chainVars,
                   live, sweeps, histVars, watcherVars, ioVars>>

(***************************************************************************)
(* ValidatorNode.handleReceivedAttestation.                                *)
(***************************************************************************)
\* attestations the gossip network can carry for transfer t: a peer's
\* signature over a digest for reference k, a signature that is not the
\* claimed validator's, and a peer's ed25519 attestation.
PeerAttestations(t) ==
    { [transferId |-> t, validatorAddress |-> v, publicKey |-> (sch = "ed25519"),
       messageHash |-> createUnit0MessageHash(t, k),
       signature |-> [scheme |-> sch, signer |-> w,
                      digest |-> createUnit0MessageHash(t, k)]] :
        v \in Peers, sch \in {"secp256k1", "ed25519"}, w \in Keys,
        k \in IF destinationChain(t) = "UNIT0" THEN TokenRefs ELSE {1} }

handleReceivedAttestation(a) ==
    /\ nodePhase = "running"
    /\ IF \/ hasAttestation(attRows, a.transferId, a.validatorAddress)
          \/ ~verifySignature(a, a.validatorAddress)
       THEN UNCHANGED <<transfers, attRows>>
       ELSE /\ transfers' = saveAttestation(transfers, a)
            /\ attRows' = saveAttestationRow(attRows, a)
    /\ UNCHANGED <<blockLast, dbOpen, relayerVars, wavesSeed, chainVars, live,
                   handlers, sweeps, histVars, watcherVars, ioVars>>

(***************************************************************************)
(* ValidatorNode.processPendingTransfers / relayTransfer and the Relayer.   *)
(***************************************************************************)
\* variant: a sweep that relays whatever the number of signatures
hasEnoughSignaturesAlways(signatures, threshold) == TRUE

\* the guard of the sweep: signatures.length >= threshold
hasEnoughSignatures(signatures, threshold) == Len(signatures) >= threshold

\* record.attestations.map((a) => a.signature)
signaturesOf(atts) == [k \in 1..Len(atts) |-> atts[k].signature]

\* record.attestations.map((a) => a.publicKey).filter(pk => pk !== undefined);
\* a public key is named by the validator it belongs to
publicKeysOf(atts) ==
    LET withKey == SelectSeq(atts, LAMBDA a : a.publicKey)
    IN  [k \in 1..Len(withKey) |-> withKey[k].validatorAddress]

\* the in-memory checks at the entry of relayToUnit0 and relayToWaves
inMemory(t) == t \in completedTransfers \/ t \in pendingTransactions

\* the sweep goes on with the next record of its snapshot
Returned(s) == [s EXCEPT !.stage = "loop", !.queue = Tail(@),
                         !.signatures = <<>>, !.publicKeys = <<>>]

\* the timer fires: getPendingTransfers and getValidatorThreshold
processPendingTransfers ==
    /\ nodePhase = "running"
    /\ nSweeps < MaxSweeps
    /\ sweeps' = [sweeps EXCEPT ![nSweeps + 1] =
                    [stage |-> "loop", threshold |-> validatorThreshold,
                     queue |-> getPendingTransfers(transfers),
                     signatures |-> <<>>, publicKeys |-> <<>>]]
    /\ nSweeps' = nSweeps + 1
    /\ UNCHANGED <<storeVars, relayerVars, wavesSeed, chainVars, live, handlers,
                   txs, delivered, restarts, watcherVars, ioVars>>

\* relayToWaves up to its first await: seed and in-memory checks
relayToWavesEntry(s, t, signatures, publicKeys) ==
    IF ~wavesSeed \/ inMemory(t)
    THEN Returned(s)
    ELSE [s EXCEPT !.stage = "toWaves", !.signatures = signatures,
                   !.publicKeys = publicKeys]

\* one turn of the for loop, up to the first await of the relay
SweepNext(i) ==
    LET s == sweeps[i]
        rec == Head(s.queue)
        t == rec.transferId
        signatures == signaturesOf(rec.attestations)
        publicKeys == publicKeysOf(rec.attestations)
    IN  /\ s.stage = "loop"
        /\ IF s.queue = <<>>
           THEN /\ sweeps' = [sweeps EXCEPT ![i].stage = "done"]
           ELSE IF ~hasEnoughSignatures(signatures, s.threshold)
           THEN /\ sweeps' = [sweeps EXCEPT ![i] = Returned(s)]
           ELSE IF destinationChain(t) = "UNIT0"
           THEN IF inMemory(t)
                THEN /\ sweeps' = [sweeps EXCEPT ![i] = Returned(s)]
                ELSE /\ sweeps' = [sweeps EXCEPT ![i] =
                            [s EXCEPT !.stage = "toUnit0", !.signatures = signatures]]
           ELSE IF publicKeys = <<>>
           THEN /\ sweeps' = [sweeps EXCEPT ![i] =
                        [s EXCEPT !.stage = "resign", !.signatures = signatures]]
           ELSE /\ sweeps' = [sweeps EXCEPT ![i] =
                        relayToWavesEntry(s, t, signatures, publicKeys)]
        /\ UNCHANGED <<storeVars, relayerVars, wavesSeed, chainVars, live, handlers,
                       txs, delivered, nSweeps, restarts, watcherVars, ioVars>>

\* relayTransfer, the fallback for a record without public keys: re-sign
Resign(i, httpOk) ==
    LET s == sweeps[i]
        t == Head(s.queue).transferId
        wavesAssetId == getWavesAssetId(tokenMap, httpOk)
        newAttestation == signTransferForWaves(t, wavesAssetId)
    IN  /\ s.stage = "resign"
        /\ IF wavesAssetId = 0
           THEN /\ sweeps' = [sweeps EXCEPT ![i] =
                        relayToWavesEntry(s, t, s.signatures, <<>>)]
                /\ UNCHANGED <<transfers, attRows>>
           ELSE IF ~wavesSeed
           THEN /\ sweeps' = [sweeps EXCEPT ![i] = Returned(s)]
                /\ UNCHANGED <<transfers, attRows>>
           ELSE /\ transfers' = saveAttestation(transfers, newAttestation)
                /\ attRows' = saveAttestationRow(attRows, newAttestation)
                /\ sweeps' = [sweeps EXCEPT ![i] =
                        relayToWavesEntry(s, t, <<newAttestation.signature>>,
                                          <<newAttestation.validatorAddress>>)]
        /\ UNCHANGED <<blockLast, dbOpen, relayerVars, wavesSeed, chainVars, live,
                       handlers, txs, delivered, nSweeps, restarts, watcherVars, ioVars>>

\* a release transaction as it is handed to the destination chain
ReleaseTx(i, t, ref) ==
    [transferId |-> t, chain |-> destinationChain(t),
     id32 |-> transferIdToBytes32(t), token |-> ref,
     signatures |-> sweeps[i].signatures, publicKeys |-> sweeps[i].publicKeys,
     stored |-> Len(transfers[t].attestations), threshold |-> sweeps[i].threshold]

\* relayToUnit0 after the entry checks: processedTransfers, threshold, token
\* address, estimateGas, then the transaction is sent and tracked.
relayToUnit0(i) ==
    LET s == sweeps[i]
        t == Head(s.queue).transferId
        unit0TokenAddress == getUnit0TokenAddress(wavesToUnit0Token)
        result ==
            IF t \in processedTransfers THEN "alreadyProcessed"
            ELSE IF Len(s.signatures) < validatorThreshold THEN "insufficient"
            ELSE IF unit0TokenAddress = ZeroAddress THEN "noToken"
            ELSE IF ~releaseTokens(t \in processedTransfers, validatorThreshold,
                                   transferIdToBytes32(t), unit0TokenAddress,
                                   s.signatures)
            THEN "reverted"
            ELSE "submitted"
    IN  /\ s.stage = "toUnit0"
        /\ completedTransfers' = IF result = "alreadyProcessed"
                                 THEN completedTransfers \cup {t}
                                 ELSE completedTransfers
        /\ pendingTransactions' =
                IF result = "reverted" THEN pendingTransactions \ {t}
                ELSE IF result = "submitted" THEN pendingTransactions \cup {t}
                ELSE pendingTransactions
        /\ txs' = IF result = "submitted"
                  THEN Append(txs, ReleaseTx(i, t, unit0TokenAddress))
                  ELSE txs
        /\ sweeps' = [sweeps EXCEPT ![i] =
                IF result = "submitted" THEN [s EXCEPT !.stage = "waitUnit0"]
                ELSE Returned(s)]
        /\ UNCHANGED <<storeVars, wavesSeed, chainVars, live, handlers, delivered,
                       nSweeps, restarts, watcherVars, ioVars>>

\* tx.wait(): the transaction is mined; on status 1 relayTransfer stores
\* 'completed' with the hash.
relayToUnit0Receipt(i) ==
    LET s == sweeps[i]
        t == Head(s.queue).transferId
        ok == releaseTokens(t \in processedTransfers, validatorThreshold,
                            transferIdToBytes32(t), wavesToUnit0Token, s.signatures)
    IN  /\ s.stage = "waitUnit0"
        /\ pendingTransactions' = pendingTransactions \ {t}
        /\ sweeps' = [sweeps EXCEPT ![i] = Returned(s)]
        /\ IF ok
           THEN /\ processedTransfers' = processedTransfers \cup {t}
                /\ completedTransfers' = completedTransfers \cup {t}
                /\ transfers' = updateTransferStatus(transfers, t, "completed", TRUE)
           ELSE UNCHANGED <<processedTransfers, completedTransfers, transfers>>
        /\ UNCHANGED <<attRows, blockLast, dbOpen, wavesSeed, processedWaves,
                       wavesToUnit0Token, tokenMap, validatorThreshold, live,
                       handlers, txs, delivered, nSweeps, restarts, watcherVars, ioVars>>

\* what the chain-A node answers to the broadcast of a release invocation:
\* the dApp refuses a transfer id it has processed, and may refuse any other
acceptsBroadcast(isProcessed, outcome) ==
    \/ outcome = "rejected"
    \/ outcome = "accepted" /\ ~isProcessed
    \/ outcome = "alreadyProcessed" /\ isProcessed

\* relayToWaves after the entry checks: getWavesAssetId, invokeScript, the
\* transfer is tracked, broadcast.
relayToWaves(i, httpOk, outcome) ==
    LET s == sweeps[i]
        t == Head(s.queue).transferId
        wavesAssetId == getWavesAssetId(tokenMap, httpOk)
    IN  /\ s.stage = "toWaves"
        /\ acceptsBroadcast(t \in processedWaves, outcome)
        /\ IF wavesAssetId = 0
           THEN /\ outcome = "rejected"
                /\ sweeps' = [sweeps EXCEPT ![i] = Returned(s)]
                /\ UNCHANGED <<txs, relayerVars>>
           ELSE /\ txs' = Append(txs, ReleaseTx(i, t, wavesAssetId))
                /\ pendingTransactions' = IF outcome = "accepted"
                                          THEN pendingTransactions \cup {t}
                                          ELSE pendingTransactions \ {t}
                /\ completedTransfers' = IF outcome = "alreadyProcessed"
                                         THEN completedTransfers \cup {t}
                                         ELSE completedTransfers
                /\ sweeps' = [sweeps EXCEPT ![i] =
                        IF outcome = "accepted" THEN [s EXCEPT !.stage = "waitWaves"]
                        ELSE Returned(s)]
        /\ UNCHANGED <<storeVars, wavesSeed, chainVars, live, handlers, delivered,
                       nSweeps, restarts, watcherVars, ioVars>>

\* waitForTx: confirmed within 60 s or not; either way the id is returned and
\* relayTransfer stores 'completed'.
relayToWavesConfirm(i, confirmed) ==
    LET s == sweeps[i]
        t == Head(s.queue).transferId
    IN  /\ s.stage = "waitWaves"
        /\ confirmed => t \notin processedWaves
        /\ IF confirmed
           THEN /\ processedWaves' = processedWaves \cup {t}
                /\ completedTransfers' = completedTransfers \cup {t}
                /\ pendingTransactions' = pendingTransactions \ {t}
           ELSE UNCHANGED <<processedWaves, relayerVars>>
        /\ transfers' = updateTransferStatus(transfers, t, "completed", TRUE)
        /\ sweeps' = [sweeps EXCEPT ![i] = Returned(s)]
        /\ UNCHANGED <<attRows, blockLast, dbOpen, wavesSeed, processedTransfers,
                       wavesToUnit0Token, tokenMap, validatorThreshold, live,
                       handlers, txs, delivered, nSweeps, restarts, watcherVars, ioVars>>

(***************************************************************************)
(* The chains and the process around the coordinator.                      *)
(***************************************************************************)
\* WavesUnit0Bridge.registerNativeToken / _createWrappedToken
registerToken ==
    /\ wavesToUnit0Token = ZeroAddress
    /\ wavesToUnit0Token' = 1
    /\ UNCHANGED <<storeVars, relayerVars, wavesSeed, processedTransfers,
                   processedWaves, tokenMap, validatorThreshold, live, handlers,
                   sweeps, histVars, watcherVars, ioVars>>

\* WavesUnit0Bridge.setValidatorThreshold: the owner raises the threshold
setValidatorThreshold(newThreshold) ==
    /\ newThreshold > validatorThreshold
    /\ newThreshold <= Cardinality(ActiveValidators)
    /\ validatorThreshold' = newThreshold
    /\ UNCHANGED <<storeVars, relayerVars, wavesSeed, processedTransfers,
                   processedWaves, wavesToUnit0Token, tokenMap, live, handlers,
                   sweeps, histVars, watcherVars, ioVars>>

\* another validator's release of transfer t is executed on its destination
ExternalRelease(t) ==
    /\ t \in live
    /\ IF destinationChain(t) = "UNIT0"
       THEN /\ t \notin processedTransfers
            /\ wavesToUnit0Token # ZeroAddress
            /\ processedTransfers' = processedTransfers \cup {t}
            /\ UNCHANGED processedWaves
       ELSE /\ t \notin processedWaves
            /\ processedWaves' = processedWaves \cup {t}
            /\ UNCHANGED processedTransfers
    /\ UNCHANGED <<storeVars, relayerVars, wavesSeed, wavesToUnit0Token, tokenMap,
                   validatorThreshold, live, handlers, sweeps, histVars,
                   watcherVars, ioVars>>

\* handlers of a process that is gone
dropped(hs) == [i \in 1..MaxDeliver |->
                  IF hs[i].pc = "idle" THEN hs[i] ELSE [hs[i] EXCEPT !.pc = "done"]]

\* the process exits and is started again: the store is kept, every handler
\* and sweep in flight and the relayer's in-memory sets are gone
Restart ==
    /\ restarts < MaxRestarts
    /\ restarts' = restarts + 1
    /\ handlers' = dropped(handlers)
    /\ sweeps' = [i \in 1..MaxSweeps |->
                      IF sweeps[i].stage = "idle" THEN sweeps[i]
                      ELSE [IdleSweep EXCEPT !.stage = "done"]]
    /\ pendingTransactions' = {}
    /\ completedTransfers' = {}
    /\ UNCHANGED <<storeVars, wavesSeed, chainVars, live, txs, delivered,
                   nSweeps, watcherVars, ioVars>>

Next ==
    \/ \E t \in Tids : Deliver(t)
    \/ \E i \in 1..MaxDeliver : HSave(i)
    \/ \E i \in 1..MaxDeliver, rpcOk \in BOOLEAN : HSign(i, rpcOk)
    \/ \E i \in 1..MaxDeliver, published \in BOOLEAN : HPublish(i, published)
    \/ \E t \in live : \E a \in PeerAttestations(t) : handleReceivedAttestation(a)
    \/ processPendingTransfers
    \/ \E i \in 1..MaxSweeps : SweepNext(i)
    \/ \E i \in 1..MaxSweeps, httpOk \in BOOLEAN : Resign(i, httpOk)
    \/ \E i \in 1..MaxSweeps : relayToUnit0(i)
    \/ \E i \in 1..MaxSweeps : relayToUnit0Receipt(i)
    \/ \E i \in 1..MaxSweeps, httpOk \in BOOLEAN :
          \E outcome \in {"accepted", "rejected", "alreadyProcessed"} :
             relayToWaves(i, httpOk, outcome)
    \/ \E i \in 1..MaxSweeps, confirmed \in BOOLEAN : relayToWavesConfirm(i, confirmed)
    \/ registerToken
    \/ \E n \in 1..MaxThreshold : setValidatorThreshold(n)
    \/ \E t \in Tids : ExternalRelease(t)
    \/ Restart

Spec == Init /\ [][Next]_vars

(***************************************************************************)
(* The watchers, ValidatorNode.start / stop and the persisted watermarks.  *)
(* A put of a watermark is taken as done when it is issued.                *)
(***************************************************************************)
STARTUP_LOOKBACK_BLOCKS == 20

BLOCKS_PER_QUERY == 1000

\* Database.saveWavesBlockHeight / saveUnit0BlockHeight: an unconditional put
saveBlockHeight(store, c, h) == [store EXCEPT ![c] = <<h>>]

\* values of the environment variables WAVES_START_BLOCK / UNIT0_START_BLOCK:
\* unset or empty, a number, text that is no number
StartBlockEnv == {"", "1", "x"}

\* parseInt of the texts above
parseInt(text) ==
    IF text = "1" THEN [isNaN |-> FALSE, value |-> 1]
    ELSE [isNaN |-> TRUE, value |-> 0]

\* process.env.X ? parseInt(process.env.X) : null, with null as <<>>
override(c) == IF startBlock[c] = "" THEN <<>> ELSE <<parseInt(startBlock[c])>>

\* variant: the look-back seed is taken whenever no override is set
startHeightSeedOnly(c) ==
    IF override(c) # <<>> /\ ~override(c)[1].isNaN
    THEN override(c)[1].value
    ELSE height[c] - Confirmations - STARTUP_LOOKBACK_BLOCKS

\* start(): the height a watcher is started from
startHeight(c) ==
    IF override(c) # <<>> /\ ~override(c)[1].isNaN
    THEN override(c)[1].value
    ELSE IF blockLast[c] = <<>>
    THEN height[c] - Confirmations - STARTUP_LOOKBACK_BLOCKS
    ELSE blockLast[c][1]

InitW ==
    /\ transfers = [t \in Tids |-> NoRecord]
    /\ attRows = {}
    /\ blockLast \in [Chains -> {<<>>, <<0>>}]
    /\ dbOpen = FALSE
    /\ InitRelayer
    /\ InitHistory
    /\ calls = [k \in 1..MaxCalls |-> IdleCall]
    /\ wavesTx = NoTx
    /\ emitted = {}
    /\ pollHead = NoPoll
    /\ startBlock \in [Chains -> StartBlockEnv]
    /\ InitContract
    /\ unit0ChainId = UNIT0_CHAIN_ID
    /\ clock = 0
    /\ signedLog = <<>>
    /\ processedTransfers = {}
    /\ processedWaves = {}
    /\ validatorThreshold = 1
    /\ live = {"t1", "t2"}
    /\ wavesToUnit0Token = 1
    /\ tokenMap = 1
    /\ wavesSeed = TRUE
    /\ handlers = [i \in 1..MaxDeliver |-> IdleHandler]
    /\ sweeps = [i \in 1..MaxSweeps |-> IdleSweep]
    /\ height = [c \in Chains |-> 0]
    /\ lastProcessed = [c \in Chains |-> 0]
    /\ watcherRunning = [c \in Chains |-> FALSE]
    /\ nodePhase = "down"

\* a new process runs ValidatorNode.start() to the end
start ==
    /\ nodePhase = "down"
    /\ dbOpen' = TRUE
    /\ lastProcessed' = [c \in Chains |-> startHeight(c)]
    /\ watcherRunning' = [c \in Chains |-> TRUE]
    /\ nodePhase' = "running"
    /\ UNCHANGED <<transfers, attRows, blockLast, relayerVars, wavesSeed, chainVars,
                   live, handlers, sweeps, histVars, height, ioVars>>

\* the body of ValidatorNode.stop(): the watchers' heights are saved
stopWrites(opened) ==
    IF opened
    THEN saveBlockHeight(saveBlockHeight(blockLast, "WAVES", lastProcessed["WAVES"]),
                         "UNIT0", lastProcessed["UNIT0"])
    ELSE blockLast

\* a new process runs start(), which throws before the watchers are started
\* (database.open, a height lookup or p2pNetwork.start fails); the catch
\* calls stop() and the process exits.
startFails(opened) ==
    /\ nodePhase = "down"
    /\ blockLast' = stopWrites(opened)
    /\ UNCHANGED <<transfers, attRows, dbOpen, relayerVars, wavesSeed, chainVars,
                   live, handlers, sweeps, histVars, watcherVars, ioVars>>

\* SIGINT / SIGTERM: stop() up to await this.p2pNetwork.stop(): isRunning is
\* cleared, the timers are cleared and both watchers are stopped.  A poll,
\* a handler or a sweep that is in flight is not waited for.
stop ==
    /\ nodePhase = "running"
    /\ watcherRunning' = [c \in Chains |-> FALSE]
    /\ nodePhase' = "stopping"
    /\ UNCHANGED <<storeVars, relayerVars, wavesSeed, chainVars, live, handlers,
                   sweeps, histVars, height, lastProcessed, ioVars>>

\* stop(): await saveWavesBlockHeight(...), await saveUnit0BlockHeight(...)
stopSave ==
    /\ nodePhase = "stopping"
    /\ blockLast' = stopWrites(dbOpen)
    /\ nodePhase' = "saved"
    /\ UNCHANGED <<transfers, attRows, dbOpen, relayerVars, wavesSeed, chainVars,
                   live, handlers, sweeps, histVars, height, lastProcessed,
                   watcherRunning, ioVars>>

\* stop(): await this.database.close(); the store rejects every later call
stopClose ==
    /\ nodePhase = "saved"
    /\ dbOpen' = FALSE
    /\ nodePhase' = "closed"
    /\ UNCHANGED <<transfers, attRows, blockLast, relayerVars, wavesSeed, chainVars,
                   live, handlers, sweeps, histVars, height, lastProcessed,
                   watcherRunning, ioVars>>

\* what is left of the process once it is gone
gone ==
    /\ dbOpen' = FALSE
    /\ watcherRunning' = [c \in Chains |-> FALSE]
    /\ lastProcessed' = [c \in Chains |-> 0]
    /\ pollHead' = NoPoll
    /\ handlers' = dropped(handlers)
    /\ nodePhase' = "down"
    /\ UNCHANGED <<transfers, attRows, blockLast, relayerVars, wavesSeed, chainVars,
                   live, sweeps, histVars, height, calls, wavesTx, emitted,
                   startBlock, unit0ChainId, clock, signedLog, contractVars>>

\* shutdown(): process.exit(0) once stop() has returned
exit ==
    /\ nodePhase = "closed"
    /\ gone

\* the process dies without finishing stop()
crash ==
    /\ nodePhase # "down"
    /\ gone

\* the source chain c grows by a block
newBlock(c) ==
    /\ height[c] < MaxHeight
    /\ height' = [height EXCEPT ![c] = @ + 1]
    /\ UNCHANGED <<storeVars, relayerVars, wavesSeed, chainVars, live, handlers,
                   sweeps, histVars, lastProcessed, watcherRunning, nodePhase,
                   ioVars>>

\* what a watcher emits: 'transfer' for a lock event of a block, read by a
\* poll that saw the chain at height head, or 'error' after the given number
\* of attempts of the call that failed
WatcherEvent(kind, c, block, head, attempts) ==
    [event |-> kind, chain |-> c, block |-> block, head |-> head,
     attempts |-> attempts]

\* poll(): the catch block: the error is logged and emitted after the one
\* attempt of the call, the poll is over and the watermark stays where it was
pollFails(c) ==
    /\ emitted' = emitted \cup {WatcherEvent("error", c, 0, 0, 1)}
    /\ pollHead' = [pollHead EXCEPT ![c] = <<>>]
    /\ UNCHANGED <<storeVars, relayerVars, wavesSeed, chainVars, live, handlers,
                   sweeps, histVars, watcherVars, calls, wavesTx, startBlock,
                   unit0ChainId, clock, signedLog, contractVars>>

\* poll(): if (!this.isRunning) return; the height of the chain is read
\* once.  rpcOk = FALSE: the request fails.
poll(c, rpcOk) ==
    /\ watcherRunning[c]
    /\ pollHead[c] = <<>>
    /\ IF rpcOk
       THEN /\ pollHead' = [pollHead EXCEPT ![c] = <<height[c]>>]
            /\ UNCHANGED <<storeVars, relayerVars, wavesSeed, chainVars, live,
                           handlers, sweeps, histVars, watcherVars, calls, wavesTx,
                           emitted, startBlock, unit0ChainId, clock, signedLog, contractVars>>
       ELSE pollFails(c)

\* poll(): the loop is left, the next poll is scheduled if isRunning
pollEnd(c) ==
    /\ pollHead[c] # <<>>
    /\ lastProcessed[c] >= pollHead[c][1] - Confirmations
    /\ pollHead' = [pollHead EXCEPT ![c] = <<>>]
    /\ UNCHANGED <<storeVars, relayerVars, wavesSeed, chainVars, live, handlers,
                   sweeps, histVars, watcherVars, calls, wavesTx, emitted,
                   startBlock, unit0ChainId, clock, signedLog, contractVars>>

\* the lock events of chain c in blocks from..to
eventsIn(c, from, to) ==
    {t \in live : sourceChain(t) = c /\ LockBlock >= from /\ LockBlock <= to}

\* emit('transfer') for the events of the blocks from..to of chain c (each
\* starts handleNewTransfer), then emit('block' / 'blocks') (the watermark is
\* put; a closed store rejects the put), then the watcher's height is set.
emitBlocks(c, from, to) ==
    LET events == eventsIn(c, from, to)
    IN  /\ nDelivered + Cardinality(events) <= MaxDeliver
        /\ handlers' = IF events = {}
                       THEN handlers
                       ELSE [handlers EXCEPT ![nDelivered + 1] =
                                [tid |-> CHOOSE t \in events : TRUE, pc |-> "save"]]
        /\ delivered' = [t \in Tids |->
                            IF t \in events THEN delivered[t] + 1 ELSE delivered[t]]
        /\ emitted' = emitted \cup
                        {WatcherEvent("transfer", c, LockBlock, pollHead[c][1], 0) :
                            t \in events}
        /\ blockLast' = IF dbOpen THEN saveBlockHeight(blockLast, c, to) ELSE blockLast
        /\ lastProcessed' = [lastProcessed EXCEPT ![c] = to]
        /\ UNCHANGED <<transfers, attRows, dbOpen, relayerVars, wavesSeed, chainVars,
                       live, sweeps, txs, nSweeps, restarts, height, watcherRunning,
                       nodePhase, calls, wavesTx, envVars>>

\* variant: the head itself is taken as confirmed
confirmedHeightNoDepth(c) == pollHead[c][1]

\* poll(): confirmedHeight = currentHeight - confirmations
confirmedHeight(c) == pollHead[c][1] - Confirmations

\* WavesWatcher.poll, one turn of the loop: processBlock of the next
\* confirmed block.  rpcOk = FALSE: getBlock throws.
processBlock(rpcOk) ==
    LET targetHeight == lastProcessed["WAVES"] + 1
    IN  /\ pollHead["WAVES"] # <<>>
        /\ lastProcessed["WAVES"] < confirmedHeight("WAVES")
        /\ rpcOk => targetHeight >= 1
        /\ IF rpcOk
           THEN emitBlocks("WAVES", targetHeight, targetHeight)
           ELSE pollFails("WAVES")

\* Math.min
Min(a, b) == IF a < b THEN a ELSE b

\* Unit0Watcher.poll, one turn of the loop: processBlockRange of the next
\* batch of confirmed blocks.  rpcOk = FALSE: queryFilter throws.
processBlockRange(rpcOk) ==
    LET fromBlock == lastProcessed["UNIT0"] + 1
        confirmedBlock == confirmedHeight("UNIT0")
        toBlock == Min(fromBlock + BLOCKS_PER_QUERY - 1, confirmedBlock)
    IN  /\ pollHead["UNIT0"] # <<>>
        /\ lastProcessed["UNIT0"] < confirmedBlock
        /\ rpcOk => fromBlock >= 0
        /\ IF rpcOk
           THEN emitBlocks("UNIT0", fromBlock, toBlock)
           ELSE pollFails("UNIT0")

\* handleNewTransfer: the store call the handler is waiting for rejects (the
\* store is closed, or the disk fails); the catch logs
\* 'Error handling transfer' and the handler is over.
HStoreFails(i) ==
    /\ handlers[i].pc \in {"save", "resolve", "publish"}
    /\ handlers' = [handlers EXCEPT ![i].pc = "storeError"]
    /\ UNCHANGED <<storeVars, relayerVars, wavesSeed, chainVars, live, sweeps,
                   histVars, watcherVars, ioVars>>

NextW ==
    \/ start
    \/ \E opened \in BOOLEAN : startFails(opened)
    \/ stop
    \/ stopSave
    \/ stopClose
    \/ exit
    \/ crash
    \/ \E c \in Chains : newBlock(c)
    \/ \E c \in Chains, rpcOk \in BOOLEAN : poll(c, rpcOk)
    \/ \E c \in Chains : pollEnd(c)
    \/ \E rpcOk \in BOOLEAN : processBlock(rpcOk)
    \/ \E rpcOk \in BOOLEAN : processBlockRange(rpcOk)
    \/ \E i \in 1..MaxDeliver : HSave(i)
    \/ \E i \in 1..MaxDeliver, rpcOk \in BOOLEAN : HSign(i, rpcOk)
    \/ \E i \in 1..MaxDeliver, published \in BOOLEAN : HPublish(i, published)
    \/ \E i \in 1..MaxDeliver : HStoreFails(i)

SpecW == InitW /\ [][NextW]_vars

(***************************************************************************)
(* The node left to itself: one lock on chain A, the handlers and the      *)
(* relayer run to completion and the 5 s timer (setInterval) keeps         *)
(* starting sweeps.  A restart loses what is in memory.                    *)
(***************************************************************************)
InitL ==
    /\ InitStore
    /\ InitRelayer
    /\ InitHistory
    /\ InitIo
    /\ processedTransfers = {}
    /\ processedWaves = {}
    /\ validatorThreshold \in 1..MaxThreshold
    /\ validatorThreshold <= Cardinality(ActiveValidators)
    /\ live = {"t1"}
    /\ wavesToUnit0Token = 1
    /\ tokenMap = 1
    /\ wavesSeed = TRUE
    /\ handlers = [i \in 1..MaxDeliver |-> IdleHandler]
    /\ sweeps = [i \in 1..MaxSweeps |-> IdleSweep]
    /\ height = [c \in Chains |-> 0]
    /\ lastProcessed = [c \in Chains |-> 0]
    /\ watcherRunning = [c \in Chains |-> TRUE]
    /\ nodePhase = "running"

\* setInterval: the sweeps that have returned make room for the next ticks
nextInterval ==
    /\ nSweeps = MaxSweeps
    /\ \A i \in 1..MaxSweeps : sweeps[i].stage = "done"
    /\ sweeps' = [i \in 1..MaxSweeps |-> IdleSweep]
    /\ nSweeps' = 0
    /\ UNCHANGED <<storeVars, relayerVars, wavesSeed, chainVars, live, handlers,
                   txs, delivered, restarts, watcherVars, ioVars>>

\* the awaits of the handlers in flight resolve
handlerStep ==
    \/ \E i \in 1..MaxDeliver : HSave(i)
    \/ \E i \in 1..MaxDeliver, rpcOk \in BOOLEAN : HSign(i, rpcOk)
    \/ \E i \in 1..MaxDeliver, published \in BOOLEAN : HPublish(i, published)

\* the timer fires and the awaits of the sweeps in flight resolve
sweepStep ==
    \/ processPendingTransfers
    \/ \E i \in 1..MaxSweeps : SweepNext(i)
    \/ \E i \in 1..MaxSweeps : relayToUnit0(i)
    \/ \E i \in 1..MaxSweeps : relayToUnit0Receipt(i)
    \/ nextInterval

NextL ==
    \/ \E t \in Tids : Deliver(t)
    \/ handlerStep
    \/ sweepStep
    \/ \E t \in live : \E a \in PeerAttestations(t) : handleReceivedAttestation(a)
    \/ Restart

SpecL == InitL /\ [][NextL]_vars /\ WF_vars(handlerStep) /\ WF_vars(sweepStep)

(***************************************************************************)
(* The Database calls of the coordinator, one step per await of the store. *)
(* handleNewTransfer and handleReceivedAttestation are started by event    *)
(* listeners that do not await them, so their calls overlap: every call    *)
(* reads the record (getTransfer), changes its copy and puts the copy.     *)
(***************************************************************************)
\* what the gossip network can deliver for transfer t: an attestation that
\* claims validator v (the peer in either spelling of its address, or an
\* address that is no validator), signed with key w
GossipValidators == {1, toLowerCase(1), 3}

\* the attestation a peer's node makes for a transfer to chain B
peerSignTransferForUnit0(v, w, t) ==
    [signTransferForUnit0(t, 1) EXCEPT !.validatorAddress = v,
                                       !.signature.signer = w]

\* the attestation a peer's node makes for a transfer to chain A
peerSignTransferForWaves(v, w, t) ==
    [signTransferForWaves(t, 1) EXCEPT !.validatorAddress = v,
                                       !.signature.signer = w]

GossipAttestations(t) ==
    { IF destinationChain(t) = "UNIT0"
      THEN peerSignTransferForUnit0(v, w, t)
      ELSE peerSignTransferForWaves(v, w, t) : v \in GossipValidators, w \in Keys }
    \cup { peerSignTransferForUnit0(v, w, t) : v \in GossipValidators, w \in Keys }

InitDb ==
    /\ InitStore
    /\ InitRelayer
    /\ InitHistory
    /\ InitIo
    /\ processedTransfers = {}
    /\ processedWaves = {}
    /\ validatorThreshold = 1
    /\ live \in {{"t1"}, {"t2"}}
    /\ wavesToUnit0Token = 1
    /\ tokenMap = 1
    /\ wavesSeed = TRUE
    /\ handlers = [i \in 1..MaxDeliver |-> IdleHandler]
    /\ sweeps = [i \in 1..MaxSweeps |-> IdleSweep]
    /\ height = [c \in Chains |-> 0]
    /\ lastProcessed = [c \in Chains |-> 0]
    /\ watcherRunning = [c \in Chains |-> TRUE]
    /\ nodePhase = "running"

nCalls == Cardinality({k \in 1..MaxCalls : calls[k].kind # "idle"})

\* a 'transfer' listener starts handleNewTransfer
handleNewTransferCall(t) ==
    /\ t \in live
    /\ nCalls < MaxCalls
    /\ calls' = [calls EXCEPT ![nCalls + 1] =
                    [IdleCall EXCEPT !.kind = "handleNewTransfer",
                                     !.pc = "saveTransfer.get", !.tid = t]]
    /\ UNCHANGED <<transfers, attRows, wavesTx, emitted, envVars, blockLast, dbOpen,
                   relayerVars, wavesSeed, chainVars, live, handlers, sweeps,
                   histVars, height, lastProcessed, watcherRunning, nodePhase>>

\* the 'attestation' listener starts handleReceivedAttestation
handleReceivedAttestationCall(a) ==
    /\ nCalls < MaxCalls
    /\ calls' = [calls EXCEPT ![nCalls + 1] =
                    [IdleCall EXCEPT !.kind = "handleReceivedAttestation",
                                     !.pc = "hasAttestation",
                                     !.tid = a.transferId, !.a = a]]
    /\ UNCHANGED <<transfers, attRows, wavesTx, emitted, envVars, blockLast, dbOpen,
                   relayerVars, wavesSeed, chainVars, live, handlers, sweeps,
                   histVars, height, lastProcessed, watcherRunning, nodePhase>>

\* a call moves on without a put
callTo(k, pc, rec, a) ==
    /\ calls' = [calls EXCEPT ![k].pc = pc, ![k].rec = rec, ![k].a = a]
    /\ UNCHANGED <<wavesTx, emitted, envVars, blockLast, dbOpen, relayerVars, wavesSeed,
                   chainVars, live, handlers, sweeps, histVars, height,
                   lastProcessed, watcherRunning, nodePhase>>

\* the store as the call saw it when it read the record of its transfer
asRead(c) == [transfers EXCEPT ![c.tid] = c.rec]

\* handleReceivedAttestation: await hasAttestation, then verifySignature
hasAttestationGet(k) ==
    LET c == calls[k]
    IN  /\ c.pc = "hasAttestation"
        /\ UNCHANGED <<transfers, attRows>>
        /\ IF \/ hasAttestation(attRows, c.a.transferId, c.a.validatorAddress)
              \/ ~verifySignature(c.a, c.a.validatorAddress)
           THEN callTo(k, "done", c.rec, c.a)
           ELSE callTo(k, "saveAttestation.row", c.rec, c.a)

\* saveTransfer: const existing = await this.getTransfer(id)
saveTransferGet(k) ==
    /\ calls[k].pc = "saveTransfer.get"
    /\ UNCHANGED <<transfers, attRows>>
    /\ callTo(k, "saveTransfer.put", transfers[calls[k].tid], calls[k].a)

\* saveTransfer: return if it existed, else put a new pending record; the
\* handler then resolves the token and signs
saveTransferPut(k) ==
    LET c == calls[k]
    IN  /\ c.pc = "saveTransfer.put"
        /\ transfers' = [transfers EXCEPT ![c.tid] =
                            IF c.rec.status = "absent"
                            THEN saveTransfer(asRead(c), c.tid)[c.tid]
                            ELSE @]
        /\ UNCHANGED attRows
        /\ callTo(k, "saveAttestation.row", c.rec, ownAttestation(c.tid, 1))

\* saveAttestation: await this.db.put(key, serialize(attestation))
saveAttestationRowPut(k) ==
    /\ calls[k].pc = "saveAttestation.row"
    /\ attRows' = saveAttestationRow(attRows, calls[k].a)
    /\ UNCHANGED transfers
    /\ callTo(k, "saveAttestation.get", calls[k].rec, calls[k].a)

\* saveAttestation: const record = await this.getTransfer(id)
saveAttestationGet(k) ==
    /\ calls[k].pc = "saveAttestation.get"
    /\ UNCHANGED <<transfers, attRows>>
    /\ callTo(k, "saveAttestation.put", transfers[calls[k].tid], calls[k].a)

\* saveAttestation: the copy with the attestation is put when a record was
\* read; handleNewTransfer goes on to broadcast and updateTransferStatus
saveAttestationPut(k) ==
    LET c == calls[k]
    IN  /\ c.pc = "saveAttestation.put"
        /\ transfers' = [transfers EXCEPT ![c.tid] =
                            IF c.rec.status = "absent"
                            THEN @
                            ELSE saveAttestation(asRead(c), c.a)[c.tid]]
        /\ UNCHANGED attRows
        /\ callTo(k, IF c.kind = "handleNewTransfer"
                     THEN "updateTransferStatus.get" ELSE "done", c.rec, c.a)

\* updateTransferStatus: const record = await this.getTransfer(id); it throws
\* when there is none
updateTransferStatusGet(k) ==
    /\ calls[k].pc = "updateTransferStatus.get"
    /\ UNCHANGED <<transfers, attRows>>
    /\ callTo(k, IF transfers[calls[k].tid].status = "absent"
                 THEN "done" ELSE "updateTransferStatus.put",
              transfers[calls[k].tid], calls[k].a)

\* updateTransferStatus: the copy with the new status is put
updateTransferStatusPut(k) ==
    LET c == calls[k]
    IN  /\ c.pc = "updateTransferStatus.put"
        /\ transfers' = [transfers EXCEPT ![c.tid] =
                updateTransferStatus(asRead(c), c.tid, "attesting", FALSE)[c.tid]]
        /\ UNCHANGED attRows
        /\ callTo(k, "done", c.rec, c.a)

NextDb ==
    \/ \E t \in Tids : handleNewTransferCall(t)
    \/ \E t \in live : \E a \in GossipAttestations(t) : handleReceivedAttestationCall(a)
    \/ \E k \in 1..MaxCalls : hasAttestationGet(k)
    \/ \E k \in 1..MaxCalls : saveTransferGet(k)
    \/ \E k \in 1..MaxCalls : saveTransferPut(k)
    \/ \E k \in 1..MaxCalls : saveAttestationRowPut(k)
    \/ \E k \in 1..MaxCalls : saveAttestationGet(k)
    \/ \E k \in 1..MaxCalls : saveAttestationPut(k)
    \/ \E k \in 1..MaxCalls : updateTransferStatusGet(k)
    \/ \E k \in 1..MaxCalls : updateTransferStatusPut(k)

SpecDb == InitDb /\ [][NextDb]_vars

(***************************************************************************)
(* WavesWatcher.processBlock on one transaction of a chain-A block.        *)
(***************************************************************************)
\* config.wavesBridgeAddress, and some other dApp
BridgeAddress == "bridge"

DApps == {BridgeAddress, "other"}

\* transaction types: 16 is invoke-script, 4 a transfer
TxTypes == {16, 4}

\* the transactions a block can hold: type, invoked dApp, whether the node
\* returned stateChanges, the function called, whether a payment is attached
\* and whether args name a recipient and the Unit0 chain id
WavesTransactions ==
    [type : TxTypes, dApp : DApps, stateChanges : BOOLEAN,
     call : {"none", "lockTokens", "lockNFT", "unlock"},
     payment : BOOLEAN, toUnit0 : BOOLEAN, inspected : {FALSE}]

\* WavesWatcher.isBridgeTransaction
isBridgeTransaction(tx) == tx.stateChanges

\* WavesWatcher.handleLockTokens / handleLockNFT: an event is emitted when a
\* payment is attached and args name a recipient on the Unit0 chain
handleLock(tx) == tx.payment /\ tx.toUnit0

\* WavesWatcher.processTransaction
processTransaction(tx) ==
    /\ tx.call # "none"
    /\ tx.call \in {"lockTokens", "lockNFT"}
    /\ handleLock(tx)

InitTx ==
    /\ InitStore
    /\ InitRelayer
    /\ InitHistory
    /\ calls = [k \in 1..MaxCalls |-> IdleCall]
    /\ wavesTx \in WavesTransactions
    /\ emitted = {}
    /\ InitEnv
    /\ processedTransfers = {}
    /\ processedWaves = {}
    /\ validatorThreshold = 1
    /\ live = {}
    /\ wavesToUnit0Token = 1
    /\ tokenMap = 1
    /\ wavesSeed = TRUE
    /\ handlers = [i \in 1..MaxDeliver |-> IdleHandler]
    /\ sweeps = [i \in 1..MaxSweeps |-> IdleSweep]
    /\ height = [c \in Chains |-> 0]
    /\ lastProcessed = [c \in Chains |-> 0]
    /\ watcherRunning = [c \in Chains |-> TRUE]
    /\ nodePhase = "running"

\* the body of the for loop of WavesWatcher.processBlock for one transaction
processBlockTransaction ==
    /\ ~wavesTx.inspected
    /\ wavesTx' = [wavesTx EXCEPT !.inspected = TRUE]
    /\ emitted' = IF /\ wavesTx.type = 16
                     /\ isBridgeTransaction(wavesTx)
                     /\ processTransaction(wavesTx)
                  THEN emitted \cup {wavesTx}
                  ELSE emitted
    /\ UNCHANGED <<storeVars, relayerVars, wavesSeed, chainVars, live, handlers,
                   sweeps, histVars, height, lastProcessed, watcherRunning,
                   nodePhase, calls, envVars>>

NextTx == processBlockTransaction

SpecTx == InitTx /\ [][NextTx]_vars

(***************************************************************************)
(* The signature engine, call by call.  An event carries its transfer id, *)
(* its recipient and its amount; the log keeps what each call returned.   *)
(***************************************************************************)
\* how many calls of the engine are logged
MaxSign == 2
\* how far Date.now() advances
MaxClock == 1

\* config.unit0ChainId: the default of loadConfig and the engine's default
ConfigChainIds == {88817, UNIT0_CHAIN_ID}

\* amounts a TransferEvent can carry
Amounts == {0 - 1, 0, 1, 25}

\* the events handed to the engine
SignEvents == [transferId : {"t1", "t2"}, recipient : {"r"}, amount : Amounts]

\* Number / BigInt toString(): the decimal digits
RECURSIVE toString(_)
toString(n) ==
    IF n < 0 THEN <<"-">> \o toString(0 - n)
    ELSE IF n < 10 THEN <<n>>
    ELSE toString(n \div 10) \o <<n % 10>>

\* signTransferForWaves: messageData, a concatenation without separators
messageData(event, wavesAssetId) ==
    <<event.transferId, event.recipient, wavesAssetId>>
        \o toString(event.amount) \o toString(UNIT0_CHAIN_ID)

\* createUnit0MessageHash with every packed field that varies here
unit0MessageHash(event, tokenAddress) ==
    <<"keccak256", transferIdToBytes32(event.transferId), tokenAddress,
      event.amount, event.recipient, unit0ChainId>>

\* what signTransferForUnit0 returns at time now
unit0Attestation(event, tokenAddress, now) ==
    [transferId |-> event.transferId,
     validatorAddress |-> OwnAddress,
     publicKey |-> FALSE,
     message |-> unit0MessageHash(event, tokenAddress),
     signature |-> [scheme |-> "secp256k1", signer |-> OwnAddress,
                    digest |-> unit0MessageHash(event, tokenAddress)],
     timestamp |-> now]

\* what signTransferForWaves returns at time now
wavesAttestation(event, wavesAssetId, now) ==
    [transferId |-> event.transferId,
     validatorAddress |-> OwnAddress,
     publicKey |-> TRUE,
     message |-> messageData(event, wavesAssetId),
     signature |-> [scheme |-> "ed25519", signer |-> OwnAddress,
                    digest |-> <<"sha256", messageData(event, wavesAssetId)>>],
     timestamp |-> now]

\* a call that threw returns nothing
NoResult == [transferId |-> "none", validatorAddress |-> 0, publicKey |-> FALSE,
             message |-> <<>>,
             signature |-> [scheme |-> "none", signer |-> 0, digest |-> <<>>],
             timestamp |-> 0]

sigFrame == <<storeVars, relayerVars, wavesSeed, chainVars, live, handlers, sweeps,
              histVars, watcherVars, calls, wavesTx, emitted, pollHead, startBlock,
              unit0ChainId, contractVars>>

InitSig ==
    /\ InitStore
    /\ InitRelayer
    /\ InitHistory
    /\ calls = [k \in 1..MaxCalls |-> IdleCall]
    /\ wavesTx = NoTx
    /\ emitted = {}
    /\ pollHead = NoPoll
    /\ startBlock = [c \in Chains |-> ""]
    /\ unit0ChainId \in ConfigChainIds
    /\ InitContract
    /\ clock = 0
    /\ signedLog = <<>>
    /\ processedTransfers = {}
    /\ processedWaves = {}
    /\ validatorThreshold = 1
    /\ live = {}
    /\ wavesToUnit0Token = 1
    /\ tokenMap = 1
    /\ wavesSeed \in BOOLEAN
    /\ handlers = [i \in 1..MaxDeliver |-> IdleHandler]
    /\ sweeps = [i \in 1..MaxSweeps |-> IdleSweep]
    /\ height = [c \in Chains |-> 0]
    /\ lastProcessed = [c \in Chains |-> 0]
    /\ watcherRunning = [c \in Chains |-> TRUE]
    /\ nodePhase = "running"

\* time passes between two calls
tick ==
    /\ clock < MaxClock
    /\ clock' = clock + 1
    /\ UNCHANGED <<sigFrame, signedLog>>

\* await signatureEngine.signTransferForUnit0(event, tokenAddress)
callSignTransferForUnit0(event, tokenAddress) ==
    /\ Len(signedLog) < MaxSign
    /\ signedLog' = Append(signedLog,
                      [scheme |-> "secp256k1", event |-> event, ref |-> tokenAddress,
                       threw |-> FALSE,
                       attestation |-> unit0Attestation(event, tokenAddress, clock)])
    /\ UNCHANGED <<sigFrame, clock>>

\* await signatureEngine.signTransferForWaves(event, wavesAssetId): throws
\* when no seed is configured
callSignTransferForWaves(event, wavesAssetId) ==
    /\ Len(signedLog) < MaxSign
    /\ signedLog' = Append(signedLog,
                      [scheme |-> "ed25519", event |-> event, ref |-> wavesAssetId,
                       threw |-> ~wavesSeed,
                       attestation |->
                          IF wavesSeed
                          THEN wavesAttestation(event, wavesAssetId, clock)
                          ELSE NoResult])
    /\ UNCHANGED <<sigFrame, clock>>

NextSig ==
    \/ tick
    \/ \E event \in SignEvents : callSignTransferForUnit0(event, 1)
    \/ \E event \in SignEvents : callSignTransferForWaves(event, 1)

SpecSig == InitSig /\ [][NextSig]_vars

(***************************************************************************)
(* Ingestion of an event whose source chain is its destination chain.     *)
(***************************************************************************)
InitIn ==
    /\ InitStore
    /\ InitRelayer
    /\ InitHistory
    /\ InitIo
    /\ processedTransfers = {}
    /\ processedWaves = {}
    /\ validatorThreshold \in 1..MaxThreshold
    /\ live = {"t3"}
    /\ wavesToUnit0Token = 1
    /\ tokenMap \in {0, 1}
    /\ wavesSeed \in BOOLEAN
    /\ handlers = [i \in 1..MaxDeliver |-> IdleHandler]
    /\ sweeps = [i \in 1..MaxSweeps |-> IdleSweep]
    /\ height = [c \in Chains |-> 0]
    /\ lastProcessed = [c \in Chains |-> 0]
    /\ watcherRunning = [c \in Chains |-> TRUE]
    /\ nodePhase = "running"

NextIn ==
    \/ \E t \in Tids : Deliver(t)
    \/ \E i \in 1..MaxDeliver : HSave(i)
    \/ \E i \in 1..MaxDeliver, rpcOk \in BOOLEAN : HSign(i, rpcOk)
    \/ \E i \in 1..MaxDeliver, published \in BOOLEAN : HPublish(i, published)
    \/ \E t \in live : \E a \in PeerAttestations(t) : handleReceivedAttestation(a)
    \/ Restart

SpecIn == InitIn /\ [][NextIn]_vars

(***************************************************************************)
(* The chain-B bridge contract, call by call: validator management,       *)
(* releaseTokens and getActiveValidators.  A call that reverts changes no *)
(* contract state; callResult keeps what the last call did.                *)
(***************************************************************************)
\* how long validatorList grows
MaxList == 4
\* how many TokensReleased events are kept
MaxReleases == 2

\* everything but the chain-B contract state
bridgeFrame == <<storeVars, relayerVars, wavesSeed, processedWaves, wavesToUnit0Token,
                 tokenMap, live, handlers, sweeps, histVars, watcherVars, calls,
                 wavesTx, emitted, pollHead, startBlock, unit0ChainId, clock,
                 signedLog>>

\* the constructor: no validator yet, the threshold as given
InitBridge ==
    /\ InitStore
    /\ InitRelayer
    /\ InitHistory
    /\ calls = [k \in 1..MaxCalls |-> IdleCall]
    /\ wavesTx = NoTx
    /\ emitted = {}
    /\ pollHead = NoPoll
    /\ startBlock = [c \in Chains |-> ""]
    /\ unit0ChainId = UNIT0_CHAIN_ID
    /\ clock = 0
    /\ signedLog = <<>>
    /\ validators = [a \in Addresses |-> FALSE]
    /\ validatorList = <<>>
    /\ activeValidatorCount = 0
    /\ bridgeFeePercent = 10
    /\ validatorFeePercent = 5
    /\ pendingLocks = <<>>
    /\ tokensReleased = <<>>
    /\ callResult = NoCall
    /\ factoryBridge = "none"
    /\ factoryOwner = "owner"
    /\ wavesAssetToWrapped = [a \in Assets |-> ZeroAddress]
    /\ wrappedToken = [a \in Assets |-> NoToken]
    /\ processedTransfers = {}
    /\ processedWaves = {}
    /\ validatorThreshold \in 1..MaxThreshold
    /\ live = {}
    /\ wavesToUnit0Token = 1
    /\ tokenMap = 1
    /\ wavesSeed = TRUE
    /\ handlers = [i \in 1..MaxDeliver |-> IdleHandler]
    /\ sweeps = [i \in 1..MaxSweeps |-> IdleSweep]
    /\ height = [c \in Chains |-> 0]
    /\ lastProcessed = [c \in Chains |-> 0]
    /\ watcherRunning = [c \in Chains |-> TRUE]
    /\ nodePhase = "running"

\* the outcome of a call
Result(name, reverted, value) == [call |-> name, reverted |-> reverted, value |-> value]

\* a call of `name` reverts
reverts(name) ==
    /\ callResult' = Result(name, TRUE, <<>>)
    /\ UNCHANGED <<validators, validatorList, activeValidatorCount, bridgeFeePercent,
                   validatorFeePercent, pendingLocks, tokensReleased,
                   factoryVars, processedTransfers,
                   validatorThreshold, bridgeFrame>>

\* WavesUnit0Bridge.addValidator
addValidator(validator) ==
    /\ Len(validatorList) < MaxList
    /\ IF validator = ZeroAddress \/ validators[validator]
       THEN reverts("addValidator")
       ELSE /\ validators' = [validators EXCEPT ![validator] = TRUE]
            /\ validatorList' = Append(validatorList, validator)
            /\ activeValidatorCount' = activeValidatorCount + 1
            /\ callResult' = Result("addValidator", FALSE, <<>>)
            /\ UNCHANGED <<bridgeFeePercent, validatorFeePercent, pendingLocks,
                           tokensReleased, factoryVars,
                           processedTransfers, validatorThreshold, bridgeFrame>>

\* WavesUnit0Bridge.removeValidator
removeValidator(validator) ==
    IF ~validators[validator] \/ ~(activeValidatorCount > validatorThreshold)
    THEN reverts("removeValidator")
    ELSE /\ validators' = [validators EXCEPT ![validator] = FALSE]
         /\ activeValidatorCount' = activeValidatorCount - 1
         /\ callResult' = Result("removeValidator", FALSE, <<>>)
         /\ UNCHANGED <<validatorList, bridgeFeePercent, validatorFeePercent,
                        pendingLocks, tokensReleased, factoryVars,
                        processedTransfers, validatorThreshold,
                        bridgeFrame>>

\* WavesUnit0Bridge.setValidatorThreshold, with both of its requires
ownerSetValidatorThreshold(newThreshold) ==
    IF ~(newThreshold > 0) \/ ~(newThreshold <= activeValidatorCount)
    THEN reverts("setValidatorThreshold")
    ELSE /\ validatorThreshold' = newThreshold
         /\ callResult' = Result("setValidatorThreshold", FALSE, <<>>)
         /\ UNCHANGED <<validators, validatorList, activeValidatorCount,
                        bridgeFeePercent, validatorFeePercent, pendingLocks,
                        tokensReleased, factoryVars,
                        processedTransfers, bridgeFrame>>

\* signatures a caller of releaseTokens can supply for transfer t: made by
\* any address over the digest of the call, or by address 1 over another one
CallerSignatures(t) ==
    {[scheme |-> "secp256k1", signer |-> a, digest |-> createUnit0MessageHash(t, 1)] :
        a \in Addresses}
    \cup {[scheme |-> "secp256k1", signer |-> 1, digest |-> createUnit0MessageHash(t, 2)]}

\* the signature arrays of a call: up to two signatures
SignatureArrays(t) ==
    {<<>>} \cup {<<x>> : x \in CallerSignatures(t)}
           \cup {<<x, y>> : x \in CallerSignatures(t), y \in CallerSignatures(t)}

\* ethSignedHash.recover(signatures[i]) for every i
recoverAll(hash, signatures) ==
    [i \in 1..Len(signatures) |-> recover(hash, signatures[i])]

\* an external call of WavesUnit0Bridge.releaseTokens for the token 1
callReleaseTokens(t, signatures) ==
    /\ Len(tokensReleased) < MaxReleases
    /\ IF releaseTokens(t \in processedTransfers, validatorThreshold,
                        transferIdToBytes32(t), 1, signatures)
       THEN /\ processedTransfers' = processedTransfers \cup {t}
            /\ tokensReleased' =
                 Append(tokensReleased,
                        [wavesTransferId |-> t,
                         signers |-> recoverAll(createUnit0MessageHash(t, 1),
                                                signatures),
                         threshold |-> validatorThreshold,
                         active |-> ActiveValidators,
                         replay |-> t \in processedTransfers])
            /\ callResult' = Result("releaseTokens", FALSE, <<>>)
            /\ UNCHANGED <<validators, validatorList, activeValidatorCount,
                           bridgeFeePercent, validatorFeePercent, pendingLocks,
                           factoryVars, validatorThreshold,
                           bridgeFrame>>
       ELSE reverts("releaseTokens")

RECURSIVE fillActive(_, _, _)
\* the loop of getActiveValidators over the rest of validatorList: the array
\* filled so far grows, or a write past its length panics
fillActive(list, active, length) ==
    IF list = <<>>
    THEN Result("getActiveValidators", FALSE, active)
    ELSE IF ~validators[Head(list)]
    THEN fillActive(Tail(list), active, length)
    ELSE IF Len(active) >= length
    THEN Result("getActiveValidators", TRUE, <<>>)
    ELSE fillActive(Tail(list), Append(active, Head(list)), length)

\* WavesUnit0Bridge.getActiveValidators
getActiveValidators ==
    /\ callResult' = fillActive(validatorList, <<>>, activeValidatorCount)
    /\ UNCHANGED <<validators, validatorList, activeValidatorCount, bridgeFeePercent,
                   validatorFeePercent, pendingLocks, tokensReleased,
                   factoryVars, processedTransfers,
                   validatorThreshold, bridgeFrame>>

NextBridge ==
    \/ \E a \in Addresses \cup {ZeroAddress} : addValidator(a)
    \/ \E a \in Addresses : removeValidator(a)
    \/ \E n \in 0..MaxThreshold : ownerSetValidatorThreshold(n)
    \/ \E signatures \in SignatureArrays("t1") : callReleaseTokens("t1", signatures)
    \/ getActiveValidators

SpecBridge == InitBridge /\ [][NextBridge]_vars

(***************************************************************************)
(* The chain-B bridge contract: setFees, lockERC20 and lockNative.  uint256 *)
(* is narrowed to UintMax; checked arithmetic reverts on overflow.         *)
(***************************************************************************)
\* the largest unsigned integer of the narrowed word
UintMax == 16777215
\* how many locks are kept
MaxLocks == 2

\* basis points the owner passes to setFees
FeeSettings == {0, 10, 995, 1000}

\* amounts a caller deposits
Deposits == {0, 1, 199, 10000, 20001}

\* a checked a * b overflows
mulOverflows(a, b) == b # 0 /\ a > UintMax \div b

\* (amount * feePercent) / 10000
feeOf(amount, feePercent) == (amount * feePercent) \div 10000

\* variant: only the bridge fee is deducted
netAmountBridgeFeeOnly(amount, bridgeFee, validatorFee) == amount - bridgeFee

\* netAmount = amount - bridgeFee - validatorFee
netAmount(amount, bridgeFee, validatorFee) == amount - bridgeFee - validatorFee

\* everything but the fee settings, the locks and the last call's result
lockFrame == <<storeVars, relayerVars, wavesSeed, chainVars, live, handlers, sweeps,
               histVars, watcherVars, calls, wavesTx, emitted, pollHead, startBlock,
               unit0ChainId, clock, signedLog, validators, validatorList,
               activeValidatorCount, tokensReleased, factoryVars>>

InitLock ==
    /\ InitStore
    /\ InitRelayer
    /\ InitHistory
    /\ InitIo
    /\ processedTransfers = {}
    /\ processedWaves = {}
    /\ validatorThreshold = 1
    /\ live = {}
    /\ wavesToUnit0Token = 1
    /\ tokenMap = 1
    /\ wavesSeed = TRUE
    /\ handlers = [i \in 1..MaxDeliver |-> IdleHandler]
    /\ sweeps = [i \in 1..MaxSweeps |-> IdleSweep]
    /\ height = [c \in Chains |-> 0]
    /\ lastProcessed = [c \in Chains |-> 0]
    /\ watcherRunning = [c \in Chains |-> TRUE]
    /\ nodePhase = "running"

\* a call of `name` reverts
lockReverts(name) ==
    /\ callResult' = Result(name, TRUE, <<>>)
    /\ UNCHANGED <<bridgeFeePercent, validatorFeePercent, pendingLocks, lockFrame>>

\* WavesUnit0Bridge.setFees
setFees(_bridgeFee, _validatorFee) ==
    IF ~(_bridgeFee + _validatorFee <= 1000)
    THEN lockReverts("setFees")
    ELSE /\ bridgeFeePercent' = _bridgeFee
         /\ validatorFeePercent' = _validatorFee
         /\ callResult' = Result("setFees", FALSE, <<>>)
         /\ UNCHANGED <<pendingLocks, lockFrame>>

\* lockERC20 / lockNative from the fee computation on: pendingLocks[lockId]
\* (amount) and the TokensLocked event (emitted) of one call, kept together
\* with the deposit and the fee settings of the call
lockTokens(name, tokenType, amount) ==
    IF \/ mulOverflows(amount, bridgeFeePercent)
       \/ mulOverflows(amount, validatorFeePercent)
    THEN lockReverts(name)
    ELSE LET bridgeFee == feeOf(amount, bridgeFeePercent)
             validatorFee == feeOf(amount, validatorFeePercent)
         IN  /\ pendingLocks' =
                  Append(pendingLocks,
                         [tokenType |-> tokenType,
                          deposit |-> amount,
                          amount |-> netAmount(amount, bridgeFee, validatorFee),
                          emitted |-> netAmount(amount, bridgeFee, validatorFee),
                          bridgeFeePercent |-> bridgeFeePercent,
                          validatorFeePercent |-> validatorFeePercent])
             /\ callResult' = Result(name, FALSE, <<>>)
             /\ UNCHANGED <<bridgeFeePercent, validatorFeePercent, lockFrame>>

\* WavesUnit0Bridge.lockERC20.  accepted = FALSE: another require fails (the
\* token is paused or not registered, the destination is too short, the
\* daily limit is exceeded) or a token transfer fails.
lockERC20(amount, accepted) ==
    /\ Len(pendingLocks) < MaxLocks
    /\ IF ~(amount > 0) \/ ~accepted
       THEN lockReverts("lockERC20")
       ELSE lockTokens("lockERC20", "ERC20", amount)

\* WavesUnit0Bridge.lockNative with msg.value = value.  accepted = FALSE: the
\* destination is too short or the fee transfer to the treasury fails.
lockNative(value, accepted) ==
    /\ Len(pendingLocks) < MaxLocks
    /\ IF ~(value > 0) \/ ~accepted
       THEN lockReverts("lockNative")
       ELSE lockTokens("lockNative", "NATIVE", value)

NextLock ==
    \/ \E b \in FeeSettings, v \in FeeSettings : setFees(b, v)
    \/ \E amount \in Deposits, accepted \in BOOLEAN : lockERC20(amount, accepted)
    \/ \E value \in Deposits, accepted \in BOOLEAN : lockNative(value, accepted)

SpecLock == InitLock /\ [][NextLock]_vars

(***************************************************************************)
(* WrappedTokenFactory.createWrappedERC20, as called by the chain-B bridge *)
(* (registerToken, createWrappedToken) and by the factory's owner.  The    *)
(* callers are the contracts and accounts "bridge", "factory" and "owner"; *)
(* "none" is address(0).                                                   *)
(***************************************************************************)
\* the address of the clone deployed for an asset
tokenOf(asset) == IF asset = "a1" THEN 1 ELSE 2

\* WrappedERC20.initialize(name, symbol, decimals, bridge_) does not revert
initializeOk(token, bridge_) == ~token.initialized /\ bridge_ # "none"

\* WrappedERC20.initialize: the clone afterwards
initialize(token, bridge_) == [token EXCEPT !.initialized = TRUE, !.bridge = bridge_]

\* WrappedERC20.setWavesAssetId(assetId) called by sender does not revert
setWavesAssetIdOk(token, sender) == sender = token.bridge /\ token.wavesAssetId = ""

\* WrappedTokenFactory.createWrappedERC20 called by sender does not revert:
\* its four requires, then initialize and setWavesAssetId on the new clone,
\* both called by the factory
createWrappedERC20Ok(sender, asset) ==
    /\ sender = factoryBridge \/ sender = factoryOwner
    /\ asset # ""
    /\ wavesAssetToWrapped[asset] = ZeroAddress
    /\ initializeOk(NoToken, factoryBridge)
    /\ setWavesAssetIdOk(initialize(NoToken, factoryBridge), "factory")

\* createWrappedERC20: the factory's mappings and the clone after the call
createWrappedERC20(asset) ==
    /\ wavesAssetToWrapped' = [wavesAssetToWrapped EXCEPT ![asset] = tokenOf(asset)]
    /\ wrappedToken' = [wrappedToken EXCEPT ![asset] =
                          [initialize(NoToken, factoryBridge)
                              EXCEPT !.wavesAssetId = asset]]

\* everything but the factory, the bridge's mapping and the last call's result
factoryFrame == <<storeVars, relayerVars, wavesSeed, processedTransfers,
                  processedWaves, tokenMap, validatorThreshold, live, handlers,
                  sweeps, histVars, watcherVars, calls, wavesTx, emitted, pollHead,
                  startBlock, unit0ChainId, clock, signedLog, validators,
                  validatorList, activeValidatorCount, bridgeFeePercent,
                  validatorFeePercent, pendingLocks, tokensReleased>>

\* factory and bridge as deployed: no bridge configured, no token registered
InitFactory ==
    /\ InitStore
    /\ InitRelayer
    /\ InitHistory
    /\ InitIo
    /\ processedTransfers = {}
    /\ processedWaves = {}
    /\ validatorThreshold = 1
    /\ live = {}
    /\ wavesToUnit0Token = ZeroAddress
    /\ tokenMap = 1
    /\ wavesSeed = TRUE
    /\ handlers = [i \in 1..MaxDeliver |-> IdleHandler]
    /\ sweeps = [i \in 1..MaxSweeps |-> IdleSweep]
    /\ height = [c \in Chains |-> 0]
    /\ lastProcessed = [c \in Chains |-> 0]
    /\ watcherRunning = [c \in Chains |-> TRUE]
    /\ nodePhase = "running"

\* WrappedTokenFactory.setBridge, by the owner
setBridge(_bridge) ==
    /\ _bridge # "none"
    /\ factoryBridge' = _bridge
    /\ callResult' = Result("setBridge", FALSE, <<_bridge>>)
    /\ UNCHANGED <<factoryOwner, wavesAssetToWrapped, wrappedToken,
                   wavesToUnit0Token, factoryFrame>>

\* Ownable.transferOwnership of the factory
transferOwnership(newOwner) ==
    /\ newOwner # "none"
    /\ factoryOwner' = newOwner
    /\ callResult' = Result("transferOwnership", FALSE, <<newOwner>>)
    /\ UNCHANGED <<factoryBridge, wavesAssetToWrapped, wrappedToken,
                   wavesToUnit0Token, factoryFrame>>

\* WavesUnit0Bridge.registerToken / createWrappedToken for the asset of t1 or
\* for an empty asset id: _createWrappedToken, which calls the factory
bridgeRegisterToken(asset) ==
    IF wavesToUnit0Token = ZeroAddress /\ createWrappedERC20Ok("bridge", asset)
    THEN /\ createWrappedERC20(asset)
         /\ wavesToUnit0Token' = tokenOf(asset)
         /\ callResult' = Result("registerToken", FALSE, <<asset>>)
         /\ UNCHANGED <<factoryBridge, factoryOwner, factoryFrame>>
    ELSE /\ callResult' = Result("registerToken", TRUE, <<asset>>)
         /\ UNCHANGED <<factoryVars, wavesToUnit0Token, factoryFrame>>

\* createWrappedERC20 called on the factory by an account
accountCreateWrappedERC20(sender, asset) ==
    IF createWrappedERC20Ok(sender, asset)
    THEN /\ createWrappedERC20(asset)
         /\ callResult' = Result("createWrappedERC20", FALSE, <<sender, asset>>)
         /\ UNCHANGED <<factoryBridge, factoryOwner, wavesToUnit0Token, factoryFrame>>
    ELSE /\ callResult' = Result("createWrappedERC20", TRUE, <<sender, asset>>)
         /\ UNCHANGED <<factoryVars, wavesToUnit0Token, factoryFrame>>

NextFactory ==
    \/ \E b \in {"bridge", "factory"} : setBridge(b)
    \/ \E o \in {"owner", "bridge"} : transferOwnership(o)
    \/ \E asset \in {"", "a1"} : bridgeRegisterToken(asset)
    \/ \E sender \in {"owner", "other"}, asset \in Assets \cup {""} :
          accountCreateWrappedERC20(sender, asset)

SpecFactory == InitFactory /\ [][NextFactory]_vars

(***************************************************************************)
(* The two sources of 'transfer': the node's watchers and the gossip        *)
(* network.  Both listeners call handleNewTransfer.                        *)
(***************************************************************************)
\* the node is running, its watchers at height 0, both locks in block
\* LockBlock of their source chains
InitGossip ==
    /\ InitStore
    /\ InitRelayer
    /\ InitHistory
    /\ InitIo
    /\ processedTransfers = {}
    /\ processedWaves = {}
    /\ validatorThreshold = 1
    /\ live = {"t1", "t2"}
    /\ wavesToUnit0Token = 1
    /\ tokenMap = 1
    /\ wavesSeed = TRUE
    /\ handlers = [i \in 1..MaxDeliver |-> IdleHandler]
    /\ sweeps = [i \in 1..MaxSweeps |-> IdleSweep]
    /\ height = [c \in Chains |-> 0]
    /\ lastProcessed = [c \in Chains |-> 0]
    /\ watcherRunning = [c \in Chains |-> TRUE]
    /\ nodePhase = "running"

\* P2PNetwork.handleTransferRequest: a TRANSFER_REQUEST message of a peer is
\* emitted as 'transfer', and the node's listener starts handleNewTransfer
handleTransferRequest(t) ==
    /\ nodePhase = "running"
    /\ t \in live
    /\ nDelivered < MaxDeliver
    /\ handlers' = [handlers EXCEPT ![nDelivered + 1] = [tid |-> t, pc |-> "save"]]
    /\ delivered' = [delivered EXCEPT ![t] = @ + 1]
    /\ UNCHANGED <<storeVars, relayerVars, wavesSeed, chainVars, live, sweeps, txs,
                   nSweeps, restarts, watcherVars, ioVars>>

NextGossip ==
    \/ \E c \in Chains : newBlock(c)
    \/ \E c \in Chains, rpcOk \in BOOLEAN : poll(c, rpcOk)
    \/ \E c \in Chains : pollEnd(c)
    \/ \E rpcOk \in BOOLEAN : processBlock(rpcOk)
    \/ \E rpcOk \in BOOLEAN : processBlockRange(rpcOk)
    \/ \E t \in Tids : handleTransferRequest(t)
    \/ \E i \in 1..MaxDeliver : HSave(i)
    \/ \E i \in 1..MaxDeliver, rpcOk \in BOOLEAN : HSign(i, rpcOk)
    \/ \E i \in 1..MaxDeliver, published \in BOOLEAN : HPublish(i, published)

SpecGossip == InitGossip /\ [][NextGossip]_vars

(***************************************************************************)
(* Properties of the coordinator and the relayer.                          *)
(***************************************************************************)
statusRank(status) ==
    CASE status = "absent" -> 0
      [] status = "pending" -> 1
      [] status = "attesting" -> 2
      [] status = "relaying" -> 3
      [] OTHER -> 4

\* the release transactions submitted for transfer t
txsOf(t) == {k \in 1..Len(txs) : txs[k].transferId = t}

\* the sweeps that are inside a relay call for transfer t, transaction sent
outstanding(t) ==
    {i \in 1..MaxSweeps : /\ sweeps[i].stage \in {"waitUnit0", "waitWaves"}
                          /\ Head(sweeps[i].queue).transferId = t}

\* C1: the status of a record only moves forward along pending -> attesting
\* -> relaying -> completed | failed; no step of the coordinator takes a
\* completed or failed record back to pending or attesting.
C1_StatusOnlyMovesForward ==
    [][\A t \in Tids :
          statusRank(transfers'[t].status) >= statusRank(transfers[t].status)]_vars

\* C2: for a lock event delivered two or more times (also across a restart)
\* at most one release transaction is ever submitted; the store is keyed by
\* transfer id, so it never holds a second record.
C2_AtMostOneRelease ==
    \A t \in Tids : delivered[t] >= 2 => Cardinality(txsOf(t)) <= 1

\* C3: at most one relay submission per transfer is outstanding at a time: a
\* relay call that overlaps an earlier one for the same transfer sends nothing.
C3_OneOutstandingSubmission ==
    \A t \in Tids : Cardinality(outstanding(t)) <= 1

\* C4: when relayToUnit0 finds the transfer already processed on chain B, no
\* transaction is sent and the stored status becomes completed.
C4_AlreadyProcessedCompletes ==
    [][\A i \in 1..MaxSweeps :
          (/\ sweeps[i].stage = "toUnit0"
           /\ Head(sweeps[i].queue).transferId \in processedTransfers
           /\ sweeps'[i].stage = "loop")
          => /\ txs' = txs
             /\ transfers'[Head(sweeps[i].queue).transferId].status = "completed"]_vars

recoveredSigners(tx) ==
    [j \in 1..Len(tx.signatures) |->
        recover(<<tx.id32, tx.token>>, tx.signatures[j])]

\* C6: in every release transaction submitted to chain B the recovered
\* signers of consecutive signatures are strictly increasing.
C6_SignersStrictlyIncreasing ==
    \A k \in 1..Len(txs) :
        txs[k].chain = "UNIT0" =>
            \A j \in 1..(Len(txs[k].signatures) - 1) :
                recoveredSigners(txs[k])[j] < recoveredSigners(txs[k])[j + 1]

\* a release with two signatures was sent to chain B
C6_Witness ==
    \E k \in 1..Len(txs) :
        /\ txs[k].chain = "UNIT0"
        /\ Len(txs[k].signatures) >= 2

\* C7: in every release invocation submitted to chain A the signatures and
\* the public keys have equal length and are paired by position.
C7_SignaturesPairedWithKeys ==
    \A k \in 1..Len(txs) :
        txs[k].chain = "WAVES" =>
            /\ Len(txs[k].signatures) = Len(txs[k].publicKeys)
            /\ \A j \in 1..Len(txs[k].signatures) :
                  txs[k].publicKeys[j] = txs[k].signatures[j].signer

\* C8: the arguments of every release submitted to chain B are the values
\* each of its signatures was computed over.
C8_ArgumentsMatchDigests ==
    \A k \in 1..Len(txs) :
        txs[k].chain = "UNIT0" =>
            \A j \in 1..Len(txs[k].signatures) :
                txs[k].signatures[j].digest =
                    createUnit0MessageHash(txs[k].transferId, txs[k].token)

\* a release carrying a peer's signature was sent to chain B while the
\* record also held the node's own attestation
C8_Witness ==
    \E k \in 1..Len(txs) :
        /\ txs[k].chain = "UNIT0"
        /\ \E j \in 1..Len(txs[k].signatures) : txs[k].signatures[j].signer \in Peers
        /\ \E j \in 1..Len(txs[k].signatures) : txs[k].signatures[j].signer = OwnAddress

\* C9: the persisted watermark of a chain never decreases, whatever block
\* events, stop(), failing start() and restarts happen (chains whose start
\* block the operator overrides are left aside).
C9_WatermarkNeverDecreases ==
    [][\A c \in Chains :
          startBlock[c] = "" /\ blockLast[c] # <<>> =>
              /\ blockLast'[c] # <<>>
              /\ blockLast'[c][1] >= blockLast[c][1]]_vars

\* C10: when the persisted watermark of a chain is h, the record of every
\* lock event in the processed blocks up to h is persisted (chains whose
\* start block the operator overrides are left aside).
C10_RecordsBeforeWatermark ==
    \A t \in live :
        (/\ startBlock[sourceChain(t)] = ""
         /\ blockLast[sourceChain(t)] # <<>>
         /\ blockLast[sourceChain(t)][1] >= LockBlock)
        => transfers[t].status # "absent"

\* a record the node has not signed and no handler is working on
unsigned(t) ==
    /\ transfers[t].status = "pending"
    /\ ~hasAttestation(attRows, t, OwnAddress)
    /\ \A i \in 1..MaxDeliver :
          handlers[i].tid = t => handlers[i].pc \in {"idle", "done", "caught"}

\* C11: a record that a crash or a handler error left pending without the
\* node's own attestation is signed later from the store alone: the node's
\* attestation is eventually stored (or the resolver finds no token and the
\* record is failed), also when the event is not delivered again.
C11_UnsignedRecordIsSigned ==
    \A t \in Tids :
        unsigned(t) ~> (hasAttestation(attRows, t, OwnAddress)
                          \/ transfers[t].status = "failed")

\* the validator addresses a record's attestations list names
validatorsOf(atts) == {atts[i].validatorAddress : i \in 1..Len(atts)}

\* C12: under every interleaving of saveAttestation and updateTransferStatus
\* calls on one transfer no attestation is lost: an attestation that is in
\* the record's list is still there after the put of either call.
C12_NoAttestationLost ==
    [][\A k \in 1..MaxCalls :
          (/\ calls[k].pc \in {"saveAttestation.put", "updateTransferStatus.put"}
           /\ calls'[k].pc # calls[k].pc)
          => validatorsOf(transfers[calls[k].tid].attestations)
                \subseteq validatorsOf(transfers'[calls[k].tid].attestations)]_vars

\* C13: a valid peer attestation that was received before the record of its
\* transfer existed is not lost: once the node has signed the transfer, the
\* record holds the peer's attestation beside the node's own.
C13_EarlyAttestationKept ==
    \A t \in Tids : \A v \in Peers :
        (/\ hasAttestation(attRows, t, v)
         /\ OwnAddress \in validatorsOf(transfers[t].attestations))
        => v \in validatorsOf(transfers[t].attestations)

\* C14: a record's attestations list holds at most one entry per validator
\* identity, where addresses that differ only in letter case are the same
\* validator, as verifySignature treats them.
C14_OneAttestationPerValidator ==
    \A t \in Tids :
        \A i, j \in 1..Len(transfers[t].attestations) :
            i # j => toLowerCase(transfers[t].attestations[i].validatorAddress)
                        # toLowerCase(transfers[t].attestations[j].validatorAddress)

\* validators[a].isActive for an address in either spelling
isActiveValidator(addr) ==
    \E x \in ActiveValidators : toLowerCase(x) = toLowerCase(addr)

\* C15: an inbound attestation whose signature does not verify for the
\* validator it claims, or whose validator is not an active validator, is
\* discarded: the handler goes on to no write of the store.
C15_InvalidAttestationDiscarded ==
    [][\A k \in 1..MaxCalls :
          (/\ calls[k].pc = "hasAttestation"
           /\ \/ ~verifySignature(calls[k].a, calls[k].a.validatorAddress)
              \/ ~isActiveValidator(calls[k].a.validatorAddress))
          => calls'[k].pc \in {"hasAttestation", "done"}]_vars

\* the attestation an honest peer validator makes with signTransferForWaves
honestForWaves(a) ==
    /\ destinationChain(a.transferId) = "WAVES"
    /\ \E v \in Peers : a = peerSignTransferForWaves(v, v, a.transferId)

\* C16: every attestation attached to a record passes the engine's
\* verifySignature for its validator, for either destination; and an
\* attestation an honest peer made with signTransferForWaves, not stored yet,
\* is accepted by verifySignature and goes on to be stored.
C16_AttachedAttestationsVerify ==
    [][/\ \A t \in Tids : \A i \in 1..Len(transfers'[t].attestations) :
             verifySignature(transfers'[t].attestations[i],
                             transfers'[t].attestations[i].validatorAddress)
       /\ \A k \in 1..MaxCalls :
             (/\ calls[k].pc = "hasAttestation"
              /\ calls'[k].pc # "hasAttestation"
              /\ honestForWaves(calls[k].a)
              /\ ~hasAttestation(attRows, calls[k].tid, calls[k].a.validatorAddress))
             => calls'[k].pc = "saveAttestation.row"]_vars

\* C17: a record that became failed because the resolver found no destination
\* token stays failed and is not relayed: no re-delivery of the event, no
\* inbound attestation and no sweep moves it out of failed or submits a
\* release for it.
C17_FailedStaysFailed ==
    [][\A t \in Tids :
          transfers[t].status = "failed"
          => /\ transfers'[t].status = "failed"
             /\ \A k \in 1..Len(txs') : k > Len(txs) => txs'[k].transferId # t]_vars

\* the chain-B bridge rejects a release with the signatures the record of t
\* holds, although the record has enough of them for the sweep to relay it
rejectedByBridge(t) ==
    /\ isPendingStatus(transfers[t].status)
    /\ destinationChain(t) = "UNIT0"
    /\ t \notin processedTransfers
    /\ wavesToUnit0Token # ZeroAddress
    /\ hasEnoughSignatures(signaturesOf(transfers[t].attestations), validatorThreshold)
    /\ ~releaseTokens(FALSE, validatorThreshold, transferIdToBytes32(t),
                      wavesToUnit0Token, signaturesOf(transfers[t].attestations))

\* C18: a record whose relay attempts the destination bridge rejects is not
\* retried without end: it eventually becomes failed (or is completed after
\* all).
C18_RejectedRelayEnds ==
    \A t \in Tids :
        rejectedByBridge(t) ~> transfers[t].status \in {"failed", "completed"}

\* the threshold the chain-A bridge dApp was initialised with (its own data
\* entry, set by the initialisation script; the script's default)
WavesThreshold == 1

\* the threshold of the destination bridge of t when sweep s started
destinationThreshold(s, t) ==
    IF destinationChain(t) = "UNIT0" THEN s.threshold ELSE WavesThreshold

\* C19: a sweep invokes the relayer for every open record of its snapshot
\* that holds at least as many attestations as the threshold of the record's
\* destination bridge: the sweep passes over such a record only when the
\* relayer itself returned at once (transfer completed or in flight in
\* memory, no chain-A seed).
C19_SweepRelaysWhenThresholdMet ==
    [][\A i \in 1..MaxSweeps :
          (/\ sweeps[i].stage = "loop"
           /\ sweeps[i].queue # <<>>
           /\ Len(Head(sweeps[i].queue).attestations)
                 >= destinationThreshold(sweeps[i], Head(sweeps[i].queue).transferId)
           /\ sweeps'[i] = Returned(sweeps[i]))
          => \/ inMemory(Head(sweeps[i].queue).transferId)
             \/ ~wavesSeed]_vars

\* C20: the chain-A watcher emits a TransferEvent only for invoke-script
\* transactions (type 16) whose dApp is the configured bridge address; an
\* invoke of lockTokens or lockNFT on another dApp emits nothing.
C20_OnlyBridgeInvokesEmit ==
    \A tx \in emitted : tx.type = 16 /\ tx.dApp = BridgeAddress

(***************************************************************************)
(* Properties of the watchers' polls, of startup and of shutdown.          *)
(***************************************************************************)
\* C21: every transfer event a watcher emits comes from a block at least
\* the confirmation depth below the head that the emitting poll read.
C21_EventsAreConfirmed ==
    \A e \in emitted :
        e.event = "transfer" => e.block <= e.head - Confirmations

\* a watcher has emitted the lock event of block LockBlock
C21_Witness ==
    \E e \in emitted : e.event = "transfer" /\ e.block = LockBlock

\* C22: start() takes the operator's override when one is set, else the
\* persisted watermark when there is one, else head - depth - look-back; a
\* persisted watermark is never replaced by the look-back seed.
C22_InitialWatermark ==
    [][nodePhase = "down" /\ nodePhase' = "running"
        => \A c \in Chains :
            /\ startBlock[c] = "1" => lastProcessed'[c] = 1
            /\ startBlock[c] = "" /\ blockLast[c] # <<>>
                => lastProcessed'[c] = blockLast[c][1]
            /\ startBlock[c] = "" /\ blockLast[c] = <<>>
                => lastProcessed'[c] =
                     height[c] - Confirmations - STARTUP_LOOKBACK_BLOCKS]_vars

\* the node runs on a store with watermark 0 for both chains: chain A
\* started from the persisted watermark, chain B from the override
C22_Witness ==
    /\ nodePhase = "running"
    /\ startBlock["WAVES"] = "" /\ startBlock["UNIT0"] = "1"
    /\ blockLast["WAVES"] = <<0>> /\ lastProcessed["WAVES"] = 0
    /\ blockLast["UNIT0"] = <<0>> /\ lastProcessed["UNIT0"] = 1

\* C23: a watcher's failed RPC call is retried, at most 5 times within the
\* poll, before the error is reported: every reported error follows between
\* 2 and 6 attempts of the call.
C23_FailedCallIsRetried ==
    \A e \in emitted :
        e.event = "error" => e.attempts >= 2 /\ e.attempts <= 6

\* C24: once stop() has closed the store, no watcher event is emitted, no
\* handler is started and no handler issues a store call.
C24_NothingAfterClose ==
    [][nodePhase = "closed" /\ nodePhase' = "closed"
        => /\ emitted' = emitted
           /\ delivered' = delivered
           /\ handlers' = handlers]_vars

\* C25: a store call that fails while the node is running ends the process.
C25_StoreFailureTerminates ==
    [][\A i \in 1..MaxDeliver :
          (/\ nodePhase = "running"
           /\ handlers[i].pc # "storeError"
           /\ handlers'[i].pc = "storeError")
          => nodePhase' = "down"]_vars

(***************************************************************************)
(* Properties of the signature engine and of ingestion.                    *)
(***************************************************************************)
\* C26: a node without a chain-A seed has chain A disabled as a
\* destination: it stores no attestation of its own for a transfer to chain
\* A, submits no release to chain A, and no handler of a transfer to chain A
\* ends in the catch of a signing error.
C26_NoSeedDisablesWaves ==
    ~wavesSeed =>
        /\ \A t \in Tids :
              destinationChain(t) = "WAVES" => ~hasAttestation(attRows, t, OwnAddress)
        /\ \A k \in 1..Len(txs) : txs[k].chain # "WAVES"
        /\ \A i \in 1..MaxDeliver :
              handlers[i].pc = "caught" => destinationChain(handlers[i].tid) # "WAVES"

\* C27: the signer rejects an event whose amount is zero or negative, for
\* both schemes.
C27_NonPositiveAmountRejected ==
    \A k \in 1..Len(signedLog) :
        signedLog[k].event.amount <= 0 => signedLog[k].threw

\* C28: an event whose source chain is its destination chain is rejected at
\* ingestion: no record is inserted for it and the node stores no
\* attestation of its own for it.
C28_SameChainEventRejected ==
    \A t \in Tids :
        sourceChain(t) = destinationChain(t)
        => /\ transfers[t].status = "absent"
           /\ ~hasAttestation(attRows, t, OwnAddress)

\* C29: two calls of the signer with the same event and the same reference
\* return attestations that are equal in every field, for both schemes.
C29_SigningIsDeterministic ==
    \A j, k \in 1..Len(signedLog) :
        (/\ signedLog[j].scheme = signedLog[k].scheme
         /\ signedLog[j].event = signedLog[k].event
         /\ signedLog[j].ref = signedLog[k].ref)
        => signedLog[j].attestation = signedLog[k].attestation

\* C30: the message signed for chain A is transfer id, recipient, asset id,
\* the decimal amount and the decimal form of the configured chain-B chain
\* id, in this order without separators; the chain id is the one the engine
\* packs into chain-B digests.
C30_ChainIdIsConfigured ==
    \A k \in 1..Len(signedLog) :
        LET e == signedLog[k]
        IN  /\ (e.scheme = "ed25519" /\ ~e.threw)
                => e.attestation.message =
                     <<e.event.transferId, e.event.recipient, e.ref>>
                        \o toString(e.event.amount) \o toString(unit0ChainId)
            /\ e.scheme = "secp256k1"
                => e.attestation.message[6] = unit0ChainId

(***************************************************************************)
(* Properties of the chain-B contracts.                                    *)
(***************************************************************************)
\* C32: releaseTokens succeeds at most once for a transfer id:
\* processedTransfers[id] is never cleared, and a release is executed only
\* for an id that was not processed before the call and is processed after.
C32_ReleasedAtMostOnce ==
    [][/\ processedTransfers \subseteq processedTransfers'
       /\ Len(tokensReleased') > Len(tokensReleased)
            => LET e == tokensReleased'[Len(tokensReleased')]
               IN  /\ e.wavesTransferId \notin processedTransfers
                   /\ e.wavesTransferId \in processedTransfers']_vars

\* the transfer was released and a later call of releaseTokens reverted
C32_Witness ==
    /\ Len(tokensReleased) = 1
    /\ tokensReleased[1].wavesTransferId \in processedTransfers
    /\ callResult = Result("releaseTokens", TRUE, <<>>)

\* C33: every executed release carried signatures that recover to at least
\* validatorThreshold pairwise distinct addresses, each an active validator
\* at the time of the call.
C33_QuorumOfActiveValidators ==
    \A k \in 1..Len(tokensReleased) :
        LET e == tokensReleased[k]
        IN  /\ Len(e.signers) >= e.threshold
            /\ \A i, j \in 1..Len(e.signers) : i # j => e.signers[i] # e.signers[j]
            /\ \A i \in 1..Len(e.signers) : e.signers[i] \in e.active

\* a release was executed on two signatures while a third address was no
\* validator
C33_Witness ==
    \E k \in 1..Len(tokensReleased) :
        /\ Len(tokensReleased[k].signers) = 2
        /\ tokensReleased[k].active # Addresses

\* C36: getActiveValidators returns, without reverting, an array that holds
\* every active validator exactly once and no other address.
C36_ActiveValidatorsListed ==
    callResult.call = "getActiveValidators"
    => /\ ~callResult.reverted
       /\ Len(callResult.value) = Cardinality(ActiveValidators)
       /\ {callResult.value[i] : i \in 1..Len(callResult.value)} = ActiveValidators

\* C34: for every lock and every fee setting that setFees accepts, the
\* amount in the TokensLocked event and in the stored LockInfo is the deposit
\* minus floor(deposit * bridge fee / 10000) minus
\* floor(deposit * validator fee / 10000), and the fees deducted are at most a
\* tenth of the deposit.
C34_NetAmountLocked ==
    /\ bridgeFeePercent + validatorFeePercent <= 1000
    /\ \A k \in 1..Len(pendingLocks) :
          LET e == pendingLocks[k]
              fees == (e.deposit * e.bridgeFeePercent) \div 10000
                        + (e.deposit * e.validatorFeePercent) \div 10000
          IN  /\ e.emitted = e.deposit - fees
              /\ e.amount = e.emitted
              /\ 10 * fees <= e.deposit

\* a lock was made under fees of 10% that took a fee from the deposit
C34_Witness ==
    \E k \in 1..Len(pendingLocks) :
        /\ pendingLocks[k].bridgeFeePercent + pendingLocks[k].validatorFeePercent = 1000
        /\ pendingLocks[k].emitted < pendingLocks[k].deposit

\* C37: when the bridge that the factory has configured as its bridge asks
\* for a wrapped token of a non-empty asset id that has none yet, the call
\* succeeds: the clone is initialised, its asset id is set, and the
\* factory's and the bridge's mappings name the new token.
C37_BridgeCreatesWrappedToken ==
    [][\A asset \in Assets :
          (/\ callResult'.call = "registerToken"
           /\ callResult'.value = <<asset>>
           /\ callResult' # callResult
           /\ factoryBridge = "bridge"
           /\ wavesAssetToWrapped[asset] = ZeroAddress
           /\ wavesToUnit0Token = ZeroAddress)
          => /\ ~callResult'.reverted
             /\ wrappedToken'[asset].initialized
             /\ wrappedToken'[asset].wavesAssetId = asset
             /\ wavesAssetToWrapped'[asset] = tokenOf(asset)
             /\ wavesToUnit0Token' = tokenOf(asset)]_vars

(***************************************************************************)
(* Properties of the sweep, the handler and the gossip listeners.           *)
(***************************************************************************)
\* the transfer a sweep is relaying: the submission has been handed to the
\* destination chain and its confirmation is awaited
awaitingConfirmation(i) == sweeps[i].stage \in {"waitUnit0", "waitWaves"}

\* C31: the listing of open transfers holds exactly the records whose status
\* is pending, attesting or relaying, and a record is in relaying for as long
\* as its relay submission is outstanding.
C31_OpenTransfersListed ==
    /\ \A t \in Tids :
          (\E k \in 1..Len(getPendingTransfers(transfers)) :
                getPendingTransfers(transfers)[k].transferId = t)
          <=> transfers[t].status \in {"pending", "attesting", "relaying"}
    /\ \A i \in 1..MaxSweeps :
          awaitingConfirmation(i) => transfers[Head(sweeps[i].queue).transferId].status = "relaying"

\* C35: a handler whose event id already has a stored record only skips: when
\* saveTransfer finds the record the handler ends there, and the record and
\* the attestation rows are as they were.
C35_DuplicateEventOnlySkips ==
    [][\A i \in 1..MaxDeliver :
          (/\ handlers[i].pc = "save"
           /\ handlers'[i].pc # "save"
           /\ transfers[handlers[i].tid].status # "absent")
          => /\ handlers'[i].pc = "done"
             /\ transfers' = transfers
             /\ attRows' = attRows]_vars

\* the release of transfer t has been executed on its destination chain
releasedOnDestination(t) ==
    IF destinationChain(t) = "UNIT0" THEN t \in processedTransfers
    ELSE t \in processedWaves

\* C38: a record is stored as completed only if the release of its transfer
\* was confirmed on the destination chain; a relay whose confirmation wait
\* timed out leaves the record open.
C38_CompletedMeansReleased ==
    \A t \in Tids : transfers[t].status = "completed" => releasedOnDestination(t)

\* the digest the engine computes for the locally recorded event t: the one
\* signTransferForUnit0 / signTransferForWaves put into the node's attestation
localDigest(t) ==
    IF destinationChain(t) = "UNIT0"
    THEN signTransferForUnit0(t, getUnit0TokenAddress(wavesToUnit0Token)).messageHash
    ELSE signTransferForWaves(t, getWavesAssetId(tokenMap, TRUE)).messageHash

\* C39: a peer's attestation is accepted for transfer t only if the digest
\* its signature covers is the digest the engine computes from the locally
\* recorded event t; an attestation over another digest is not stored with
\* the record.
C39_PeerDigestIsLocalDigest ==
    \A t \in Tids : \A k \in 1..Len(transfers[t].attestations) :
        LET a == transfers[t].attestations[k]
        IN  (a.validatorAddress \in Peers /\ wavesToUnit0Token # ZeroAddress)
                => a.messageHash = localDigest(t)

\* a watcher of the node has emitted transfer t from a block that was past
\* the finality depth when the poll read the head
emittedConfirmed(t) ==
    \E e \in emitted : /\ e.event = "transfer"
                       /\ e.chain = sourceChain(t)
                       /\ e.block + Confirmations <= e.head

\* C40: the node holds an attestation of its own for transfer t only if one
\* of its own watchers emitted t from a block past the finality depth; a
\* transfer known only from a peer's gossip is never signed.
C40_SignsOnlyOwnObservations ==
    \A t \in Tids : hasAttestation(attRows, t, OwnAddress) => emittedConfirmed(t)

====
